---- MODULE Spec2Model ----
(***************************************************************************)
(* Model of queuesim.  The event kernel (src/queuesim/descore.py): Event,   *)
(* _ListEventList and Simulator.  Events are identified by the order of     *)
(* their construction (1, 2, ...); user code (the caller of run(), an       *)
(* init() hook, an event's run() handler) is the environment and may        *)
(* construct events, cancel events and register init objects.  The          *)
(* parallel driver (src/queuesim/tools.py): SimProcess and run_parallel.    *)
(* The model builders (src/queuesim/models.py): build_network_model and     *)
(* impatience_and_retry_model_build.                                        *)
(***************************************************************************)
EXTENDS Integers, Sequences, FiniteSets, TLC

\* Bounds of the model: events constructed, largest event time, init objects
\* registered, cancelling calls (remove_event and Event.remove) made.
MaxEvents == 3
MaxTime == 1
MaxInit == 2
MaxCancels == 1

\* Bounds of the model of run_parallel: the SimProcess objects passed to it.
NumSimProcesses == 3

\* Bounds of the model of the mp.Queue of a SimProcess: the largest pickled
\* model and the capacity of the queue's pipe, in the same unit.
MaxResultSize == 3
PipeCapacity == 2

\* Bounds of the model of the builders: the largest transition rate of a
\* matrix entry, the largest number of operators c.
MaxRate == 2
MaxC == 3

\* Bounds of the model of build_graph: the longest next_stations list of a
\* station, the longest initial_nodes list.
MaxNext == 2
MaxInitial == 2

\* Bound of the model of the distribution builders: the largest absolute
\* value of a mean or standard deviation.
MaxParam == 2

\* Bounds of the model of the stations: the clients the Source emits, the
\* largest value a generator returns, how often the Decide stations send
\* one client back to the Process station, and in how many parameters the
\* Process station differs from the plain one.
MaxClients == 2
MaxDraw == 1
MaxLoops == 1
MaxDeviations == 2

\* Bound of the model of the event lists: the add, pop and remove calls
\* made.
MaxListOps == 6

\* Python's None for an Optional[Event] (event ids start at 1).
None == 0

EventIds == 1..MaxEvents
Times == 0..MaxTime

VARIABLES
    time,            \* Simulator.__time
    events,          \* Simulator.__events.__events: the list of _ListEventList
    nowEvent,        \* Simulator.__nowEvent
    eventCount,      \* Simulator.__eventCount
    initObjects,     \* Simulator.__initObjects
    evTime,          \* Event.__time of every constructed event, by id
    removed,         \* Event.__removed of every constructed event, by id
    pc,              \* where the control is: idle, init, ininit, loop, handler
    event,           \* the local variable `event` of Simulator.run
    initIdx,         \* position of the for loop over __initObjects in run
    registered,      \* number of register_init calls made so far
    runLog,          \* history: the events whose run() was invoked, in order
    initLog,         \* history: the objects whose init() was invoked, in order
    cancelled,       \* history: events passed to remove_event while pending
    nowSched,        \* history: events a handler scheduled for the current time
    skipped,         \* history: events popped with __removed set and not run
    dropped,         \* history: events popped by a failing assertion
    regBefore,       \* history: number of objects registered when run() began
    outcome,         \* history: the run() call in progress (first or later),
                     \* or how the last one ended
    ncancel,         \* history: number of remove_event / Event.remove calls
    past,            \* history: events constructed with a time smaller than
                     \* the clock
    procState,       \* the mp.Process of every SimProcess: initial, started,
                     \* put (the result is queued), exited, failed
    queue,           \* the content of the mp.Queue of every SimProcess
    size,            \* the size of the pickled model every worker has in
                     \* its queue, 0 when it has none there
    unsent,          \* what the queue's feeder thread in every worker has
                     \* not yet written to the pipe
    inPipe,          \* what the pipe of every mp.Queue holds
    got,             \* what queue.get() in the parent has read of the item
                     \* it is receiving
    results,         \* SimProcess.__results of every SimProcess
    simulator,       \* SimProcess.__simulator of every SimProcess
    ppc,             \* where run_parallel is: start, join, get, collect,
                     \* returned; getagain: in the queue.get() of a join()
                     \* called once more after run_parallel
    pidx,            \* the position of the loop of run_parallel in progress
    finishLog,       \* history: the workers in the order they queued results
    returned,        \* the tuple returned by run_parallel
    netArgs,         \* the matrices passed to build_network_model
    wiring,          \* the stations' successors as build_network_model left
                     \* them, and the error it raised
    irArgs,          \* the arguments of impatience_and_retry_model_build
    irModel,         \* what impatience_and_retry_model_build built
    gpc,             \* where build_graph is: idle, loop, returned, raised
    initial_nodes,   \* the argument of build_graph
    next_stations,   \* Station.next_stations of every station
    todo,            \* the local list `todo` of build_graph
    station_names,   \* the local dict `station_names` of build_graph
    last_nr_for_type, \* the local dict `last_nr_for_type` of build_graph
    edges,           \* the local list `edges` of build_graph
    dg,              \* the nx.DiGraph of build_graph: its nodes and edges
    distArgs,        \* the builder of random_dist called, and its arguments
    distResult,      \* what the builder call gave
    stpc,            \* the run of the station network: new, run, done, assert
    cfg,             \* the parameters of the Process station
    now,             \* the clock of the simulator of the stations
    pendingList,     \* its event list
    nowSlot,         \* its now-slot
    evs,             \* the events constructed: kind, time, clients, duration
    clientQueue,     \* Process: the waiting clients, in the order of entry
    in_service,      \* Process: the clients occupying a server
    post_processing, \* Process: the clients in post-processing
    in_delay,        \* Delay: the clients being delayed
    servers_busy,    \* Process: the server slots in use
    impatience_events, \* Process: the patience event of every queued client
    clients,         \* the clients created: arrival time, accumulators
    count,           \* clients emitted, consumed, blocked, cancelled, lost
    enqLog,          \* history: the clients in the order they were enqueued
    startLog,        \* history: the enqueueings in the order of service start
    disposed,        \* history: what Dispose recorded for every client
    stray,           \* history: clients not in the queue whose patience
                     \* event fired
    lTime,           \* event lists: Event.__time of the events added, by id
    lstL,            \* _ListEventList.__events
    lstD,            \* _DequeEventList.__events
    heap,            \* _HeapqEventList.__events
    hMarked,         \* the events _HeapqEventList.remove marked as removed
    dispL,           \* history: the events pop returned from the list that
                     \* a Simulator would run (not marked), in order
    dispD,           \* history: the same for the deque
    dispH,           \* history: the same for the heap
    nops             \* history: the number of calls made

kernelVars == <<time, events, nowEvent, eventCount, initObjects, evTime,
                removed, pc, event, initIdx, registered, runLog, initLog,
                cancelled, nowSched, skipped, dropped, regBefore, outcome,
                ncancel, past>>

parVars == <<procState, queue, size, unsent, inPipe, got, results,
             simulator, ppc, pidx, finishLog, returned>>

buildVars == <<netArgs, wiring, irArgs, irModel>>

graphVars == <<gpc, initial_nodes, next_stations, todo, station_names,
               last_nr_for_type, edges, dg>>

distVars == <<distArgs, distResult>>

stationVars == <<stpc, cfg, now, pendingList, nowSlot, evs, clientQueue,
                 in_service, post_processing, in_delay, servers_busy,
                 impatience_events, clients, count, enqLog, startLog,
                 disposed, stray>>

listVars == <<lTime, lstL, lstD, heap, hMarked, dispL, dispD, dispH, nops>>

\* What the event kernel leaves alone.
otherVars == <<parVars, buildVars, graphVars, distVars, stationVars,
    listVars>>

\* What run_parallel leaves alone.
notParVars == <<kernelVars, buildVars, graphVars, distVars, stationVars,
    listVars>>

\* What the model builders leave alone.
notBuildVars == <<kernelVars, parVars, graphVars, distVars, stationVars,
    listVars>>

\* What build_graph leaves alone.
notGraphVars == <<kernelVars, parVars, buildVars, distVars, stationVars,
    listVars>>

\* What the distribution builders leave alone.
notDistVars == <<kernelVars, parVars, buildVars, graphVars, stationVars,
    listVars>>

\* What the stations leave alone.
notStationVars == <<kernelVars, parVars, buildVars, graphVars, distVars,
                    listVars>>

\* What the calls on the three event lists leave alone.
notListVars == <<kernelVars, parVars, buildVars, graphVars, distVars,
                 stationVars>>

vars == <<kernelVars, parVars, buildVars, graphVars, distVars, stationVars,
          listVars>>

simVars == <<time, events, nowEvent, eventCount, initObjects>>
histVars == <<runLog, initLog, cancelled, nowSched, skipped, dropped,
              regBefore, outcome, past>>

Range(s) == {s[i] : i \in 1..Len(s)}

Created == 1..Len(evTime)

\* The events held by the simulator: the list and the now-slot.
Pending == Range(events) \cup (IF nowEvent = None THEN {} ELSE {nowEvent})

\* The pending events that are not marked as removed.
LivePending == {e \in Pending : ~removed[e]}

(***************************************************************************)
(* _ListEventList                                                          *)
(***************************************************************************)

InsertAt(l, i, e) == SubSeq(l, 1, i) \o <<e>> \o SubSeq(l, i + 1, Len(l))

RemoveAt(l, i) == SubSeq(l, 1, i - 1) \o SubSeq(l, i + 1, Len(l))

\* Event.__lt__: events compare by their times.
EventLt(a, b, tm) == tm[a] < tm[b]

\* Event.__eq__: two events are equal when their times are equal.
EventEq(a, b, tm) == tm[a] = tm[b]

\* bisect.bisect_right on l[lo:hi] (0-based lo, hi as in Python).
RECURSIVE BisectRight(_, _, _, _, _)
BisectRight(l, e, lo, hi, tm) ==
    IF lo < hi
    THEN LET mid == (lo + hi) \div 2
         IN  IF EventLt(e, l[mid + 1], tm)
             THEN BisectRight(l, e, lo, mid, tm)
             ELSE BisectRight(l, e, mid + 1, hi, tm)
    ELSE lo

\* bisect.insort(l, event)
Insort(l, e, tm) == InsertAt(l, BisectRight(l, e, 0, Len(l), tm), e)

\* Variant of ListAdd that always appends.
ListAddAppend(l, e, tm) == Append(l, e)

\* _ListEventList.add
ListAdd(l, e, tm) ==
    IF Len(l) = 0 THEN Append(l, e)
    ELSE IF tm[e] < tm[l[1]] THEN InsertAt(l, 0, e)
    ELSE IF tm[e] > tm[l[Len(l)]] THEN Append(l, e)
    ELSE Insort(l, e, tm)

\* _ListEventList.pop: the event returned (None for an empty list).
ListPopEvent(l) == IF Len(l) = 0 THEN None ELSE l[1]

\* _ListEventList.pop: the list left.
ListPopRest(l) == IF Len(l) = 0 THEN l ELSE Tail(l)

\* `event in list` / list.remove(event): the first position whose element is
\* the event itself or compares equal to it (0 when there is none).
ListIndex(l, e, tm) ==
    LET hits == {i \in 1..Len(l) : l[i] = e \/ EventEq(l[i], e, tm)}
    IN  IF hits = {} THEN 0 ELSE CHOOSE i \in hits : \A j \in hits : i <= j

\* Variant of ListRemove that leaves the list as it is (the event is only
\* marked, as _HeapqEventList.remove does).
ListRemoveKeeps(l, e, tm) == l

\* _ListEventList.remove: the list left.
ListRemove(l, e, tm) ==
    IF ListIndex(l, e, tm) = 0 THEN l ELSE RemoveAt(l, ListIndex(l, e, tm))

(***************************************************************************)
(* Simulator                                                               *)
(***************************************************************************)

\* Variant of AddToNowSlot that forgets to compare the event's time with the
\* clock.
AddToNowSlotAnyTime(t) == nowEvent = None

\* Simulator.add_event: does the event go to the now-slot?
AddToNowSlot(t) == t = time /\ nowEvent = None

\* Variant of PopEvent without the assertion: an earlier event is taken and
\* the clock set back.
PopEventNoAssert ==
    IF nowEvent # None
    THEN [event |-> nowEvent, nowEvent |-> None, events |-> events,
          time |-> time, failed |-> FALSE]
    ELSE LET e == ListPopEvent(events)
         IN  [event |-> e, nowEvent |-> nowEvent,
              events |-> ListPopRest(events),
              time |-> IF e # None /\ ~removed[e] THEN evTime[e] ELSE time,
              failed |-> FALSE]

\* Variant of PopEvent that forgets `self.__time = event.time`.
PopEventNoTime ==
    IF nowEvent # None
    THEN [event |-> nowEvent, nowEvent |-> None, events |-> events,
          time |-> time, failed |-> FALSE]
    ELSE LET e == ListPopEvent(events)
         IN  [event |-> e, nowEvent |-> nowEvent,
              events |-> ListPopRest(events), time |-> time,
              failed |-> e # None /\ ~removed[e] /\ ~(time <= evTime[e])]

\* Variant of PopEvent that evaluates the assertion before it looks whether
\* an event was popped: it fails on None.
PopEventEmptyFails ==
    IF nowEvent # None
    THEN [event |-> nowEvent, nowEvent |-> None, events |-> events,
          time |-> time, failed |-> FALSE]
    ELSE LET e == ListPopEvent(events)
         IN  [event |-> e, nowEvent |-> nowEvent,
              events |-> ListPopRest(events),
              time |-> IF e # None /\ ~removed[e] /\ time <= evTime[e]
                       THEN evTime[e] ELSE time,
              failed |-> e = None \/ (~removed[e] /\ ~(time <= evTime[e]))]

\* Variant of PopEvent that sets the clock also for an event that is marked
\* as removed.
PopEventRemovedAdvances ==
    IF nowEvent # None
    THEN [event |-> nowEvent, nowEvent |-> None, events |-> events,
          time |-> time, failed |-> FALSE]
    ELSE LET e == ListPopEvent(events)
         IN  IF e # None
             THEN IF removed[e] \/ time <= evTime[e]
                  THEN [event |-> e, nowEvent |-> nowEvent,
                        events |-> ListPopRest(events),
                        time |-> evTime[e], failed |-> FALSE]
                  ELSE [event |-> e, nowEvent |-> nowEvent,
                        events |-> ListPopRest(events),
                        time |-> time, failed |-> TRUE]
             ELSE [event |-> e, nowEvent |-> nowEvent,
                   events |-> ListPopRest(events),
                   time |-> time, failed |-> FALSE]

\* Simulator.__pop_event: the event returned, the fields left, and whether
\* the assertion failed (then the AssertionError leaves run()).
PopEvent ==
    IF nowEvent # None
    THEN [event |-> nowEvent, nowEvent |-> None, events |-> events,
          time |-> time, failed |-> FALSE]
    ELSE LET e == ListPopEvent(events)
         IN  IF e # None /\ ~removed[e]
             THEN IF time <= evTime[e]
                  THEN [event |-> e, nowEvent |-> nowEvent,
                        events |-> ListPopRest(events),
                        time |-> evTime[e], failed |-> FALSE]
                  ELSE [event |-> e, nowEvent |-> nowEvent,
                        events |-> ListPopRest(events),
                        time |-> time, failed |-> TRUE]
             ELSE [event |-> e, nowEvent |-> nowEvent,
                   events |-> ListPopRest(events),
                   time |-> time, failed |-> FALSE]

\* The statement `event = self.__pop_event()` of run(), with what follows an
\* AssertionError: run() is left, the popped event is gone.
DoPop ==
    LET p == PopEvent
    IN  /\ nowEvent' = p.nowEvent
        /\ events' = p.events
        /\ time' = p.time
        /\ IF p.failed
           THEN /\ pc' = "idle"
                /\ event' = None
                /\ dropped' = dropped \cup {p.event}
                /\ outcome' = "assert"
           ELSE /\ pc' = "loop"
                /\ event' = p.event
                /\ dropped' = dropped
                /\ outcome' = outcome

\* User code runs: outside run(), inside an init() hook, inside a handler.
UserCtx == pc \in {"idle", "ininit", "handler"}

KernelInit ==
    /\ time = 0
    /\ events = <<>>
    /\ nowEvent = None
    /\ eventCount = 0
    /\ initObjects = <<>>
    /\ evTime = <<>>
    /\ removed = <<>>
    /\ pc = "idle"
    /\ event = None
    /\ initIdx = 0
    /\ registered = 0
    /\ runLog = <<>>
    /\ initLog = <<>>
    /\ cancelled = {}
    /\ nowSched = {}
    /\ skipped = {}
    /\ dropped = {}
    /\ regBefore = 0
    /\ outcome = "none"
    /\ ncancel = 0
    /\ past = {}

\* Event.__init__(simulator, t), which calls Simulator.add_event(self).
NewEvent(t) ==
    /\ UserCtx
    /\ Len(evTime) < MaxEvents
    /\ LET e == Len(evTime) + 1
       IN  /\ evTime' = Append(evTime, t)
           /\ removed' = Append(removed, FALSE)
           /\ IF AddToNowSlot(t)
              THEN /\ nowEvent' = e
                   /\ events' = events
              ELSE /\ nowEvent' = nowEvent
                   /\ events' = ListAdd(events, e, evTime')
           /\ nowSched' = IF pc = "handler" /\ t = time
                          THEN nowSched \cup {e} ELSE nowSched
           /\ past' = IF t < time THEN past \cup {e} ELSE past
    /\ UNCHANGED <<time, eventCount, initObjects, pc, event, initIdx,
                   registered, runLog, initLog, cancelled, skipped, dropped,
                   regBefore, outcome, ncancel>>
    /\ UNCHANGED otherVars

\* Simulator.remove_event(e)
RemoveEvent(e) ==
    /\ UserCtx
    /\ e \in Created
    /\ ncancel < MaxCancels
    /\ IF e = nowEvent
       THEN /\ nowEvent' = None
            /\ events' = events
       ELSE /\ nowEvent' = nowEvent
            /\ events' = ListRemove(events, e, evTime)
    /\ cancelled' = IF e \in Pending THEN cancelled \cup {e} ELSE cancelled
    /\ ncancel' = ncancel + 1
    /\ UNCHANGED <<time, eventCount, initObjects, evTime, removed, pc, event,
                   initIdx, registered, runLog, initLog, nowSched, skipped,
                   dropped, regBefore, outcome, past>>
    /\ UNCHANGED otherVars

\* Event.remove(): marks the event as removed.
EventRemove(e) ==
    /\ UserCtx
    /\ e \in Created
    /\ ncancel < MaxCancels
    /\ removed' = [removed EXCEPT ![e] = TRUE]
    /\ ncancel' = ncancel + 1
    /\ UNCHANGED <<simVars, evTime, pc, event, initIdx, registered, histVars>>
    /\ UNCHANGED otherVars

\* Simulator.register_init(initObject); the objects are numbered as registered.
RegisterInit ==
    /\ UserCtx
    /\ registered < MaxInit
    /\ registered' = registered + 1
    /\ initObjects' = Append(initObjects, registered + 1)
    /\ UNCHANGED <<time, events, nowEvent, eventCount, evTime, removed, pc,
                   event, initIdx, histVars, ncancel>>
    /\ UNCHANGED otherVars

\* Simulator.run() is called: the for loop over __initObjects starts.
RunBegin ==
    /\ pc = "idle"
    /\ pc' = "init"
    /\ initIdx' = 1
    /\ regBefore' = registered
    /\ outcome' = IF outcome = "none" THEN "running" ELSE "rerunning"
    /\ UNCHANGED <<simVars, evTime, removed, event, registered, runLog,
                   initLog, cancelled, past, nowSched, skipped, dropped, ncancel>>
    /\ UNCHANGED otherVars

\* `object.init()` is called for the next object of the list.
InitCall ==
    /\ pc = "init"
    /\ initIdx <= Len(initObjects)
    /\ initLog' = Append(initLog, initObjects[initIdx])
    /\ pc' = "ininit"
    /\ UNCHANGED <<simVars, evTime, removed, event, initIdx, registered,
                   runLog, cancelled, past, nowSched, skipped, dropped, regBefore,
                   outcome, ncancel>>
    /\ UNCHANGED otherVars

\* init() returns; the for loop advances.
InitReturn ==
    /\ pc = "ininit"
    /\ pc' = "init"
    /\ initIdx' = initIdx + 1
    /\ UNCHANGED <<simVars, evTime, removed, event, registered, histVars,
                   ncancel>>
    /\ UNCHANGED otherVars

\* Variant of InitDone that forgets `self.__initObjects.clear()`.
InitDoneNoClear ==
    /\ pc = "init"
    /\ initIdx > Len(initObjects)
    /\ initObjects' = initObjects
    /\ DoPop
    /\ UNCHANGED <<eventCount, evTime, removed, initIdx, registered, runLog,
                   initLog, cancelled, past, nowSched, skipped, regBefore, ncancel>>
    /\ UNCHANGED otherVars

\* The for loop is exhausted: __initObjects.clear(), then the first
\* __pop_event() of run().
InitDone ==
    /\ pc = "init"
    /\ initIdx > Len(initObjects)
    /\ initObjects' = <<>>
    /\ DoPop
    /\ UNCHANGED <<eventCount, evTime, removed, initIdx, registered, runLog,
                   initLog, cancelled, past, nowSched, skipped, regBefore, ncancel>>
    /\ UNCHANGED otherVars

\* while event is not None: if not event.removed: event.run() is entered.
LoopRun ==
    /\ pc = "loop"
    /\ event # None
    /\ ~removed[event]
    /\ runLog' = Append(runLog, event)
    /\ pc' = "handler"
    /\ UNCHANGED <<simVars, evTime, removed, event, initIdx, registered,
                   initLog, cancelled, past, nowSched, skipped, dropped, regBefore,
                   outcome, ncancel>>
    /\ UNCHANGED otherVars

\* Variant of LoopSkip in which an event marked as removed ends the loop.
LoopSkipBreak ==
    /\ pc = "loop"
    /\ event # None
    /\ removed[event]
    /\ skipped' = skipped \cup {event}
    /\ pc' = "idle"
    /\ event' = None
    /\ outcome' = "returned"
    /\ UNCHANGED <<simVars, evTime, removed, initIdx, registered, runLog,
                   initLog, cancelled, past, nowSched, dropped, regBefore, ncancel>>
    /\ UNCHANGED otherVars

\* while event is not None: event.removed is set: the next event is popped.
LoopSkip ==
    /\ pc = "loop"
    /\ event # None
    /\ removed[event]
    /\ skipped' = skipped \cup {event}
    /\ DoPop
    /\ UNCHANGED <<eventCount, initObjects, evTime, removed, initIdx,
                   registered, runLog, initLog, cancelled, past, nowSched,
                   regBefore, ncancel>>
    /\ UNCHANGED otherVars

\* event.run() returns: the event is counted and the next one popped.
HandlerReturn ==
    /\ pc = "handler"
    /\ eventCount' = eventCount + 1
    /\ DoPop
    /\ UNCHANGED <<initObjects, evTime, removed, initIdx, registered, runLog,
                   initLog, cancelled, past, nowSched, skipped, regBefore, ncancel>>
    /\ UNCHANGED otherVars

\* Variant of HandlerRaise that counts the event although its run() raised
\* (the increment in a finally clause).
HandlerRaiseCounted ==
    /\ pc = "handler"
    /\ pc' = "idle"
    /\ event' = None
    /\ outcome' = "raised"
    /\ eventCount' = eventCount + 1
    /\ UNCHANGED <<time, events, nowEvent, initObjects, evTime, removed,
                   initIdx, registered, runLog, initLog, cancelled, past, nowSched,
                   skipped, dropped, regBefore, ncancel>>
    /\ UNCHANGED otherVars

\* event.run() raises: the exception leaves run().
HandlerRaise ==
    /\ pc = "handler"
    /\ pc' = "idle"
    /\ event' = None
    /\ outcome' = "raised"
    /\ UNCHANGED <<simVars, evTime, removed, initIdx, registered, runLog,
                   initLog, cancelled, past, nowSched, skipped, dropped, regBefore,
                   ncancel>>
    /\ UNCHANGED otherVars

\* The while loop ends (event is None): run() returns.
LoopExit ==
    /\ pc = "loop"
    /\ event = None
    /\ pc' = "idle"
    /\ outcome' = "returned"
    /\ UNCHANGED <<simVars, evTime, removed, event, initIdx, registered,
                   runLog, initLog, cancelled, past, nowSched, skipped, dropped,
                   regBefore, ncancel>>
    /\ UNCHANGED otherVars

(***************************************************************************)
(* SimProcess and run_parallel (src/queuesim/tools.py)                     *)
(***************************************************************************)

SimProcesses == 1..NumSimProcesses

\* Python's None for SimProcess.__results and SimProcess.__simulator.
NoModel == [builtBy |-> 0, simulator |-> 0]

\* The model of SimProcess i after its simulation has run: the pickled
\* dictionary the worker queues; its stations refer to simulator i.
ModelOf(i) == [builtBy |-> i, simulator |-> i]

\* get_simulator_from_model: the simulator of the model's first station.
GetSimulatorFromModel(m) == m.simulator

\* Variant of QueueOf in which all SimProcess objects share one queue.
QueueOfShared(i) == 1

\* SimProcess.__init__: every SimProcess creates its own mp.Queue().
QueueOf(i) == i

ParInit ==
    /\ procState = [i \in SimProcesses |-> "initial"]
    /\ queue = [i \in SimProcesses |-> <<>>]
    /\ size = [i \in SimProcesses |-> 0]
    /\ unsent = [i \in SimProcesses |-> 0]
    /\ inPipe = [i \in SimProcesses |-> 0]
    /\ got = 0
    /\ results = [i \in SimProcesses |-> NoModel]
    /\ simulator = [i \in SimProcesses |-> 0]
    /\ ppc = "start"
    /\ pidx = 1
    /\ finishLog = <<>>
    /\ returned = [models |-> <<>>, simulators |-> <<>>]

\* run_parallel: `for process in processes: process.start()`.
ProcessStart ==
    /\ ppc = "start"
    /\ procState' = [procState EXCEPT ![pidx] = "started"]
    /\ IF pidx < NumSimProcesses
       THEN /\ pidx' = pidx + 1
            /\ ppc' = ppc
       ELSE /\ pidx' = 1
            /\ ppc' = "join"
    /\ UNCHANGED <<queue, size, unsent, inPipe, got, results, simulator,
                   finishLog, returned>>
    /\ UNCHANGED notParVars

\* _run_sim_process in worker i: simulator.run() returns, queue.put(model)
\* hands the pickled model, of some size, to the queue's feeder thread and
\* returns.
WorkerPut(i) ==
    /\ procState[i] = "started"
    /\ procState' = [procState EXCEPT ![i] = "put"]
    /\ queue' = [queue EXCEPT ![QueueOf(i)] = Append(@, ModelOf(i))]
    /\ \E sz \in 1..MaxResultSize :
           /\ size' = [size EXCEPT ![i] = sz]
           /\ unsent' = [unsent EXCEPT ![i] = sz]
    /\ finishLog' = Append(finishLog, i)
    /\ UNCHANGED <<inPipe, got, results, simulator, ppc, pidx, returned>>
    /\ UNCHANGED notParVars

\* The smaller of two numbers.
Min(a, b) == IF a < b THEN a ELSE b

\* The feeder thread of worker i writes to the pipe of the queue as much as
\* the pipe has room for, once the items queued before are written.
FeederWrite(i) ==
    /\ procState[i] = "put"
    /\ unsent[i] > 0
    /\ inPipe[QueueOf(i)] < PipeCapacity
    /\ \A k \in 1..Len(queue[QueueOf(i)]) :
           LET j == queue[QueueOf(i)][k].builtBy
           IN  (j # i /\ unsent[j] > 0)
                   => \E l \in 1..(k - 1) : queue[QueueOf(i)][l].builtBy = i
    /\ LET n == Min(unsent[i], PipeCapacity - inPipe[QueueOf(i)])
       IN  /\ unsent' = [unsent EXCEPT ![i] = @ - n]
           /\ inPipe' = [inPipe EXCEPT ![QueueOf(i)] = @ + n]
    /\ UNCHANGED <<procState, queue, size, got, results, simulator, ppc, pidx,
                   finishLog, returned>>
    /\ UNCHANGED notParVars

\* _run_sim_process in worker i: simulator.run() raises; the exception ends
\* the worker process and nothing is put into the queue.
WorkerRaise(i) ==
    /\ procState[i] = "started"
    /\ procState' = [procState EXCEPT ![i] = "failed"]
    /\ UNCHANGED <<queue, size, unsent, inPipe, got, results, simulator, ppc,
                   pidx, finishLog, returned>>
    /\ UNCHANGED notParVars

\* _run_sim_process in worker i returns: the worker process exits once its
\* feeder thread has written everything to the pipe.
WorkerExit(i) ==
    /\ procState[i] = "put"
    /\ unsent[i] = 0
    /\ procState' = [procState EXCEPT ![i] = "exited"]
    /\ UNCHANGED <<queue, size, unsent, inPipe, got, results, simulator, ppc,
                   pidx, finishLog, returned>>
    /\ UNCHANGED notParVars

\* SimProcess.join: `self.__process.join()` returns once the worker process
\* has ended, whichever way.
ProcessJoin ==
    /\ ppc = "join"
    /\ procState[pidx] \in {"exited", "failed"}
    /\ ppc' = "get"
    /\ UNCHANGED <<procState, queue, size, unsent, inPipe, got, results,
                   simulator, pidx, finishLog, returned>>
    /\ UNCHANGED notParVars

\* The parent is inside `self.__queue.get()`.
InGet == ppc \in {"get", "getagain"}

\* SimProcess.join: queue.get() reads from the pipe what is there of the
\* next item.
QueueRead ==
    /\ InGet
    /\ queue[QueueOf(pidx)] # <<>>
    /\ inPipe[QueueOf(pidx)] > 0
    /\ got < size[Head(queue[QueueOf(pidx)]).builtBy]
    /\ LET n == Min(inPipe[QueueOf(pidx)],
                    size[Head(queue[QueueOf(pidx)]).builtBy] - got)
       IN  /\ got' = got + n
           /\ inPipe' = [inPipe EXCEPT ![QueueOf(pidx)] = @ - n]
    /\ UNCHANGED <<procState, queue, size, unsent, results, simulator, ppc,
                   pidx, finishLog, returned>>
    /\ UNCHANGED notParVars

\* SimProcess.join: `self.__results = self.__queue.get()` returns once the
\* item is read, then get_simulator_from_model; the loop of run_parallel
\* advances (a join() called after run_parallel returns to its caller).
QueueGet ==
    /\ InGet
    /\ queue[QueueOf(pidx)] # <<>>
    /\ got = size[Head(queue[QueueOf(pidx)]).builtBy]
    /\ LET m == Head(queue[QueueOf(pidx)])
       IN  /\ results' = [results EXCEPT ![pidx] = m]
           /\ simulator' = [simulator EXCEPT ![pidx] = GetSimulatorFromModel(m)]
    /\ queue' = [queue EXCEPT ![QueueOf(pidx)] = Tail(@)]
    /\ size' = [size EXCEPT ![Head(queue[QueueOf(pidx)]).builtBy] = 0]
    /\ got' = 0
    /\ IF ppc = "getagain"
       THEN /\ pidx' = pidx
            /\ ppc' = "returned"
       ELSE IF pidx < NumSimProcesses
       THEN /\ pidx' = pidx + 1
            /\ ppc' = "join"
       ELSE /\ pidx' = 1
            /\ ppc' = "collect"
    /\ UNCHANGED <<procState, unsent, inPipe, finishLog, returned>>
    /\ UNCHANGED notParVars

\* run_parallel: the two list comprehensions over process.results and
\* process.simulator (no join: __results is set), and the return.
Collect ==
    /\ ppc = "collect"
    /\ returned' = [models |-> [i \in SimProcesses |-> results[i]],
                    simulators |-> [i \in SimProcesses |-> simulator[i]]]
    /\ ppc' = "returned"
    /\ UNCHANGED <<procState, queue, size, unsent, inPipe, got, results,
                   simulator, pidx, finishLog>>
    /\ UNCHANGED notParVars

\* After run_parallel the caller calls processes[i].join() once more:
\* `self.__process.join()` returns at once, the worker process has ended,
\* and `self.__queue.get()` is entered.
JoinAgain(i) ==
    /\ ppc = "returned"
    /\ procState[i] \in {"exited", "failed"}
    /\ ppc' = "getagain"
    /\ pidx' = i
    /\ UNCHANGED <<procState, queue, size, unsent, inPipe, got, results,
                   simulator, finishLog, returned>>
    /\ UNCHANGED notParVars

(***************************************************************************)
(* build_network_model and impatience_and_retry_model_build                *)
(* (src/queuesim/models.py)                                                *)
(***************************************************************************)

\* The station lists of src/example_sim_network.py.
NumSources == 1
NumProcessStations == 2
NumDisposes == 1

\* Transition rates: 0 (no connection) and the positive rates 1..MaxRate.
Rates == 0..MaxRate

\* Stations are named by kind and position in their list; Decide stations by
\* the order of their construction.
NoStation == <<"None", 0>>
SourceAt(i) == <<"Source", i>>
ProcessAt(i) == <<"Process", i>>
DisposeAt(i) == <<"Dispose", i>>
DecideAt(i) == <<"Decide", i>>

\* The stations build_network_model calls set_next on.
Wired ==
    {SourceAt(i) : i \in 1..NumSources}
        \cup {ProcessAt(i) : i \in 1..NumProcessStations}

\* The rows drawn for a matrix whose rows should have n entries: one entry
\* fewer, n entries, one entry more.
Rows(n) == UNION {[1..l -> Rates] : l \in (n - 1)..(n + 1)}

\* The matrices drawn for a matrix that should have r rows of n entries: r
\* rows drawn freely, or one row fewer or more (all rows alike).
Matrices(r, n) ==
    [1..r -> Rows(n)]
        \cup {[i \in 1..k |-> row] : k \in {r - 1, r + 1}, row \in Rows(n)}

\* connections1 and connections2 of src/example_sim_network.py, with the
\* rates 0.2, 0.8 and 1 on the scale 0..MaxRate.
ExampleConnections1 == <<<<2, 1>>>>
ExampleConnections2 == <<<<0, 1, 2>>, <<2, 0, 0>>>>

\* The arguments drawn for build_network_model: one matrix drawn, the other
\* that of the example.
NetInputs ==
    (Matrices(NumSources, NumProcessStations) \X {ExampleConnections2})
        \cup ({ExampleConnections1}
                  \X Matrices(NumProcessStations,
                              NumProcessStations + NumDisposes))

\* The stations before build_network_model: no successor set, no Decide.
NoWiring ==
    [error |-> "none", next |-> [s \in Wired |-> NoStation], decides |-> <<>>]

\* `for p_index, rate in enumerate(row): if rate <= 0: continue;
\* decide.add_next(processes[p_index], rate)`: the add_next calls, from
\* position j on.
RECURSIVE SourceNexts(_, _)
SourceNexts(row, j) ==
    IF j > Len(row) THEN <<>>
    ELSE (IF row[j] <= 0 THEN <<>> ELSE <<<<ProcessAt(j), row[j]>>>>)
             \o SourceNexts(row, j + 1)

\* The body of the loop over the sources, for source s.
ConnectSource(w, s, connections1) ==
    LET d == Len(w.decides) + 1
        w1 == [w EXCEPT !.decides = Append(@, <<>>),
                        !.next[SourceAt(s)] = DecideAt(d)]
        row == connections1[s]
    IN  IF Len(row) > NumProcessStations
        THEN [w1 EXCEPT !.error = "RuntimeError"]
        ELSE [w1 EXCEPT !.decides[d] = SourceNexts(row, 1)]

\* The loop over the sources from source s on; an error ends it.
RECURSIVE ConnectSources(_, _, _)
ConnectSources(w, s, connections1) ==
    IF s > NumSources \/ w.error # "none" THEN w
    ELSE ConnectSources(ConnectSource(w, s, connections1), s + 1, connections1)

\* The add_next calls of the else branch of the loop over the processes,
\* from position j on.
RECURSIVE ProcessNexts(_, _)
ProcessNexts(row, j) ==
    IF j > Len(row) THEN <<>>
    ELSE (IF row[j] <= 0 THEN <<>>
          ELSE IF j <= NumProcessStations
               THEN <<<<ProcessAt(j), row[j]>>>>
               ELSE <<<<DisposeAt(j - NumProcessStations), row[j]>>>>)
             \o ProcessNexts(row, j + 1)

\* The body of the loop over the processes, for process p.  With exactly
\* one positive entry, processes[next_index] is evaluated whatever the
\* column: an IndexError for a column of a dispose station.
ConnectProcess(w, p, connections2) ==
    LET row == connections2[p]
        positive == {j \in 1..Len(row) : row[j] > 0}
    IN  IF Len(row) > NumProcessStations + NumDisposes
        THEN [w EXCEPT !.error = "RuntimeError"]
        ELSE IF Cardinality(positive) = 1
        THEN LET j == CHOOSE j \in positive : TRUE
             IN  IF j <= NumProcessStations
                 THEN [w EXCEPT !.next[ProcessAt(p)] = ProcessAt(j)]
                 ELSE [w EXCEPT !.error = "IndexError"]
        ELSE LET d == Len(w.decides) + 1
             IN  [w EXCEPT !.decides = Append(@, ProcessNexts(row, 1)),
                           !.next[ProcessAt(p)] = DecideAt(d)]

\* The loop over the processes from process p on; an error ends it.
RECURSIVE ConnectProcesses(_, _, _)
ConnectProcesses(w, p, connections2) ==
    IF p > NumProcessStations \/ w.error # "none" THEN w
    ELSE ConnectProcesses(ConnectProcess(w, p, connections2), p + 1,
                          connections2)

\* Variant of BuildNetworkModel that checks the row count of connections2
\* only after the sources are wired.
BuildNetworkModelLateCheck(connections1, connections2) ==
    IF Len(connections1) # NumSources
    THEN [NoWiring EXCEPT !.error = "RuntimeError"]
    ELSE LET w == ConnectSources(NoWiring, 1, connections1)
         IN  IF w.error = "none" /\ Len(connections2) # NumProcessStations
             THEN [w EXCEPT !.error = "RuntimeError"]
             ELSE ConnectProcesses(w, 1, connections2)

\* build_network_model(sources, processes, disposes, connections1,
\* connections2): the wiring it leaves and the error it raises.
BuildNetworkModel(connections1, connections2) ==
    IF Len(connections1) # NumSources
    THEN [NoWiring EXCEPT !.error = "RuntimeError"]
    ELSE IF Len(connections2) # NumProcessStations
    THEN [NoWiring EXCEPT !.error = "RuntimeError"]
    ELSE ConnectProcesses(ConnectSources(NoWiring, 1, connections1), 1,
                          connections2)

\* The retry probabilities drawn: 0 and a positive one.
RetryProbabilities == {0, 1}

\* Nothing built yet.
NoModelBuilt == [processC |-> 0, c |-> 0, retry |-> FALSE]

\* impatience_and_retry_model_build(..., retry_probability, ..., c, count):
\* the number of operators the Process station is created with, the 'c'
\* entry of the returned dictionary, and whether the retry stations exist.
\* The statement `c = 1` precedes both uses of c.
ImpatienceAndRetryModelBuild(retry_probability, c) ==
    LET c1 == 1
    IN  [processC |-> c1, c |-> c1, retry |-> retry_probability > 0]

BuildInit ==
    /\ netArgs = <<>>
    /\ wiring = NoWiring
    /\ irArgs = <<>>
    /\ irModel = NoModelBuilt

\* A call of build_network_model on the stations of the example, with
\* matrices drawn from NetInputs.
BuildNetworkModelCall ==
    /\ netArgs = <<>>
    /\ \E in \in NetInputs :
           /\ netArgs' = in
           /\ wiring' = BuildNetworkModel(in[1], in[2])
    /\ UNCHANGED <<irArgs, irModel>>
    /\ UNCHANGED notBuildVars

\* A call of impatience_and_retry_model_build, with retry_probability and c
\* drawn from RetryProbabilities and 1..MaxC.
ImpatienceAndRetryModelBuildCall ==
    /\ irArgs = <<>>
    /\ \E retry_probability \in RetryProbabilities, c \in 1..MaxC :
           /\ irArgs' = <<retry_probability, c>>
           /\ irModel' = ImpatienceAndRetryModelBuild(retry_probability, c)
    /\ UNCHANGED <<netArgs, wiring>>
    /\ UNCHANGED notBuildVars

(***************************************************************************)
(* build_graph (src/queuesim/graph.py)                                     *)
(***************************************************************************)

\* The stations build_graph is called on: the two Source stations and the
\* Process station of src/example_sim_mmc_priorities2.py.
NumGraphStations == 3

GraphStations == 1..NumGraphStations

\* type(station).__name__
KindOf(station) == IF station <= 2 THEN "Source" ELSE "Process"

Kinds == {KindOf(station) : station \in GraphStations}

\* A station that is not a key of station_names.
NoName == <<"None", 0>>

\* The next_stations lists drawn: up to MaxNext different stations, in any
\* order (a station may be its own successor).
NextLists ==
    {l \in UNION {[1..n -> GraphStations] : n \in 0..MaxNext} :
        \A i, j \in 1..Len(l) : i # j => l[i] # l[j]}

\* The initial_nodes lists drawn: up to MaxInitial stations; a station may
\* occur more than once.
InitialLists == UNION {[1..n -> GraphStations] : n \in 0..MaxInitial}

\* Variant of BuildStationName without the early return for a station that
\* has a name.
BuildStationNameAgain(station, names, last) ==
    LET cls == KindOf(station)
        nr == IF last[cls] # 0 THEN last[cls] + 1 ELSE 1
    IN  [station_names |-> [names EXCEPT ![station] = <<cls, nr>>],
         last_nr_for_type |-> [last EXCEPT ![cls] = nr]]

\* _build_station_name(station, station_names, last_nr_for_type): the two
\* dicts afterwards.  A kind that is not a key of last_nr_for_type is
\* held as 0.  The name is kept as the pair of base name and number (the
\* client type name a Source adds depends on the station only).
BuildStationName(station, names, last) ==
    IF names[station] # NoName
    THEN [station_names |-> names, last_nr_for_type |-> last]
    ELSE LET cls == KindOf(station)
             nr == IF last[cls] # 0 THEN last[cls] + 1 ELSE 1
         IN  [station_names |-> [names EXCEPT ![station] = <<cls, nr>>],
              last_nr_for_type |-> [last EXCEPT ![cls] = nr]]

\* Variant of AddNextStations that records an edge only to a successor it
\* also appends to todo.
RECURSIVE AddNextStationsNewOnly(_, _, _, _, _, _)
AddNextStationsNewOnly(station, nexts, j, names, td, es) ==
    IF j > Len(nexts) THEN [todo |-> td, edges |-> es]
    ELSE LET next_station == nexts[j]
             new == /\ names[next_station] = NoName
                    /\ \A i \in 1..Len(td) : td[i] # next_station
         IN  AddNextStationsNewOnly(station, nexts, j + 1, names,
                 IF new THEN Append(td, next_station) ELSE td,
                 IF new THEN Append(es, <<station, next_station>>) ELSE es)

\* Variant of AddNextStations that appends every successor to todo.
RECURSIVE AddNextStationsAlways(_, _, _, _, _, _)
AddNextStationsAlways(station, nexts, j, names, td, es) ==
    IF j > Len(nexts) THEN [todo |-> td, edges |-> es]
    ELSE AddNextStationsAlways(station, nexts, j + 1, names,
             Append(td, nexts[j]),
             Append(es, <<station, nexts[j]>>))

\* _add_station_to_graph: the loop `for next_station in
\* station.next_stations` from position j on; todo and edges afterwards.
RECURSIVE AddNextStations(_, _, _, _, _, _)
AddNextStations(station, nexts, j, names, td, es) ==
    IF j > Len(nexts) THEN [todo |-> td, edges |-> es]
    ELSE LET next_station == nexts[j]
             new == /\ names[next_station] = NoName
                    /\ \A i \in 1..Len(td) : td[i] # next_station
         IN  AddNextStations(station, nexts, j + 1, names,
                 IF new THEN Append(td, next_station) ELSE td,
                 Append(es, <<station, next_station>>))

GraphInit ==
    /\ gpc = "idle"
    /\ initial_nodes = <<>>
    /\ next_stations = [station \in GraphStations |-> <<>>]
    /\ todo = <<>>
    /\ station_names = [station \in GraphStations |-> NoName]
    /\ last_nr_for_type = [cls \in Kinds |-> 0]
    /\ edges = <<>>
    /\ dg = [nodes |-> {}, edges |-> {}]

\* build_graph(initial_nodes) is called on a network of stations whose
\* next_stations lists are drawn from NextLists: the statements before the
\* while loop.
BuildGraphCall ==
    /\ gpc = "idle"
    /\ \E nodes \in InitialLists, nexts \in [GraphStations -> NextLists] :
           /\ initial_nodes' = nodes
           /\ next_stations' = nexts
           /\ todo' = nodes
    /\ gpc' = "loop"
    /\ UNCHANGED <<station_names, last_nr_for_type, edges, dg>>
    /\ UNCHANGED notGraphVars

\* One iteration of `while todo:`: station = todo.pop() takes the last
\* element, then _build_station_name and _add_station_to_graph.
BuildGraphStep ==
    /\ gpc = "loop"
    /\ todo # <<>>
    /\ LET station == todo[Len(todo)]
           rest == SubSeq(todo, 1, Len(todo) - 1)
           named == BuildStationName(station, station_names, last_nr_for_type)
           added == AddNextStations(station, next_stations[station], 1,
                                    named.station_names, rest, edges)
       IN  /\ station_names' = named.station_names
           /\ last_nr_for_type' = named.last_nr_for_type
           /\ todo' = added.todo
           /\ edges' = added.edges
           /\ dg' = [dg EXCEPT !.nodes = @ \cup {named.station_names[station]}]
    /\ UNCHANGED <<gpc, initial_nodes, next_stations>>
    /\ UNCHANGED notGraphVars

\* The while loop has ended: `for edge in edges: dg.add_edge(...)` and the
\* return.  station_names[...] of a station without a name is a KeyError;
\* add_edge adds its end points to the nodes.
BuildGraphReturn ==
    /\ gpc = "loop"
    /\ todo = <<>>
    /\ IF \E i \in 1..Len(edges) : station_names[edges[i][2]] = NoName
       THEN /\ gpc' = "raised"
            /\ dg' = dg
       ELSE LET named == {<<station_names[edges[i][1]],
                            station_names[edges[i][2]]>> : i \in 1..Len(edges)}
            IN  /\ gpc' = "returned"
                /\ dg' = [nodes |-> dg.nodes \cup {e[1] : e \in named}
                                        \cup {e[2] : e \in named},
                          edges |-> named]
    /\ UNCHANGED <<initial_nodes, next_stations, todo, station_names,
                   last_nr_for_type, edges>>
    /\ UNCHANGED notGraphVars

(***************************************************************************)
(* The distribution builders exp, log_normal, gamma and erlang             *)
(* (src/queuesim/random_dist.py)                                           *)
(***************************************************************************)

Builders == {"exp", "log_normal", "gamma", "erlang"}

\* The means and standard deviations drawn: negative, zero and positive.
Params == (0 - MaxParam)..MaxParam

\* What a builder call gives: the error it raises, or the kind of generator
\* it returns (a callable for as_lambda = True, else a recipe string).
Raises(error) == [error |-> error, generator |-> "none"]
Returns(as_lambda) ==
    [error |-> "none", generator |-> IF as_lambda THEN "callable" ELSE "string"]

\* exp(mean, as_lambda)
Exp(mean, as_lambda) ==
    IF ~(mean > 0) THEN Raises("AssertionError")
    ELSE Returns(as_lambda)

\* log_normal(mean, std, as_lambda): `assert std >= 0`, then
\* mu = math.log(mean**2 / math.sqrt(std**2 + mean**2)) divides by zero
\* when both are zero and takes the logarithm of zero when only mean is;
\* sigma = math.sqrt(math.log((std**2 / mean**2) + 1)) is defined whenever
\* mean is not zero.
LogNormal(mean, std, as_lambda) ==
    IF ~(std >= 0) THEN Raises("AssertionError")
    ELSE IF std * std + mean * mean = 0 THEN Raises("ZeroDivisionError")
    ELSE IF mean * mean = 0 THEN Raises("ValueError")
    ELSE Returns(as_lambda)

\* gamma(mean, std, as_lambda)
Gamma(mean, std, as_lambda) ==
    IF ~(mean > 0) THEN Raises("AssertionError")
    ELSE IF ~(std > 0) THEN Raises("AssertionError")
    ELSE Returns(as_lambda)

\* erlang(mean, std, as_lambda)
Erlang(mean, std, as_lambda) ==
    IF ~(mean > 0) THEN Raises("AssertionError")
    ELSE IF ~(std > 0) THEN Raises("AssertionError")
    ELSE Returns(as_lambda)

DistInit ==
    /\ distArgs = <<>>
    /\ distResult = Raises("none")

\* A call of one of the builders with arguments drawn from Params; exp
\* takes no standard deviation (held as 0).
BuilderCall ==
    /\ distArgs = <<>>
    /\ \E builder \in Builders, mean \in Params, std \in Params,
          as_lambda \in BOOLEAN :
           /\ builder = "exp" => std = 0
           /\ distArgs' = <<builder, mean, std, as_lambda>>
           /\ distResult' =
                  CASE builder = "exp" -> Exp(mean, as_lambda)
                    [] builder = "log_normal" -> LogNormal(mean, std, as_lambda)
                    [] builder = "gamma" -> Gamma(mean, std, as_lambda)
                    [] builder = "erlang" -> Erlang(mean, std, as_lambda)
    /\ UNCHANGED notDistVars

(***************************************************************************)
(* The stations Source, Process, Decide, Delay and Dispose                 *)
(* (queuesim.stations, after sections 4.2 to 4.6 of the specification),    *)
(* wired as in src/example_sim_call_center.py and run by the event kernel  *)
(* of src/queuesim/descore.py                                              *)
(***************************************************************************)

\* The values a generator (inter-arrival, service, patience,
\* post-processing, retry delay) returns.
Draws == 0..MaxDraw

\* The Process station of the plain M/M/1 model: one operator, unlimited
\* capacity, single service, no patience, no post-processing, FIFO, no
\* cancel successor.
PlainConfig ==
    [c |-> 1, K |-> -1, b |-> 1, WT |-> FALSE, S2 |-> FALSE,
     discipline |-> "FIFO", cancel |-> FALSE]

\* In how many parameters a Process station differs from the plain one.
Deviations(cf) ==
    Cardinality({f \in DOMAIN cf : cf[f] # PlainConfig[f]})

\* The parameters of the Process station: c operators, capacity K (-1 for
\* unlimited, else at least c), batch size b, whether there is a patience
\* generator WT and a post-processing generator S2, the discipline (FIFO,
\* LIFO, or a priority function), and whether set_next_cancel was called.
\* The stations drawn differ from the plain one in up to MaxDeviations
\* parameters.
Configs ==
    {cf \in [c : 1..2, K : {-1, 1, 2, 3}, b : 1..2, WT : BOOLEAN,
             S2 : BOOLEAN, discipline : {"FIFO", "LIFO", "PRIO"},
             cancel : BOOLEAN] :
        /\ cf.K = -1 \/ cf.K >= cf.c
        /\ Deviations(cf) <= MaxDeviations}

\* What the generators and the Decide stations give during one event: the
\* inter-arrival time, the service time, the patience, the post-processing
\* time, the retry delay, and whether the forwarding and the retry Decide
\* choose the way back to the Process station.
DrawRecords ==
    [i : Draws, s : Draws, wt : Draws, s2 : Draws, delay : Draws,
     fwd : BOOLEAN, retry : BOOLEAN]

\* The priority function of the PRIO discipline: by client type (the
\* clients are of two types, in turn).
Priority(cl) == cl % 2

\* The state of the simulator and the stations, as one record.
World ==
    [now |-> now, pendingList |-> pendingList, nowSlot |-> nowSlot,
     evs |-> evs, clientQueue |-> clientQueue, in_service |-> in_service,
     post_processing |-> post_processing, in_delay |-> in_delay,
     servers_busy |-> servers_busy,
     impatience_events |-> impatience_events, clients |-> clients,
     count |-> count, enqLog |-> enqLog, startLog |-> startLog,
     disposed |-> disposed, stray |-> stray]

\* The times of the events constructed so far, by event.
EventTimes(w) == [e \in 1..Len(w.evs) |-> w.evs[e].t]

\* Event.__init__ and Simulator.add_event: an event for the current time
\* goes to the now-slot when that is free, else into the list.
Schedule(w, kind, t, cls, delta) ==
    LET e == Len(w.evs) + 1
        w1 == [w EXCEPT !.evs = Append(@, [kind |-> kind, t |-> t,
                                          clients |-> cls, delta |-> delta])]
    IN  IF t = w.now /\ w.nowSlot = None
        THEN [w1 EXCEPT !.nowSlot = e]
        ELSE [w1 EXCEPT !.pendingList = ListAdd(@, e, EventTimes(w1))]

\* Simulator.remove_event(e)
RemoveEventOf(w, e) ==
    IF e = w.nowSlot
    THEN [w EXCEPT !.nowSlot = None]
    ELSE [w EXCEPT !.pendingList = ListRemove(@, e, EventTimes(w))]

\* Dispose: the client is consumed; its waiting and service times and its
\* residence time are recorded.
DisposeClient(w, cl) ==
    [w EXCEPT !.count.consumed = @ + 1,
              !.disposed = Append(@, [client |-> cl,
                                      waiting |-> w.clients[cl].waiting,
                                      service |-> w.clients[cl].service,
                                      extra |-> w.clients[cl].extra,
                                      residence |-> w.now - w.clients[cl].arrival])]

\* The cancel exit of the Process station, taken by a blocked client (no
\* blocked-successor is configured) and by a client whose patience expired.
\* Without a cancel successor the client leaves the system; else the retry
\* Decide sends it to the Dispose or, at most MaxLoops times, to the Delay.
CancelExit(w, cl, d, lost) ==
    IF ~cfg.cancel
    THEN [w EXCEPT !.count[lost] = @ + 1]
    ELSE IF d.retry /\ w.clients[cl].loops < MaxLoops
    THEN Schedule([w EXCEPT !.clients[cl].loops = @ + 1,
                            !.clients[cl].extra = @ + d.delay,
                            !.in_delay = @ \cup {cl}],
                  "DelayEnd", w.now + d.delay, <<cl>>, d.delay)
    ELSE DisposeClient(w, cl)

\* Variant of SelectNext that always takes the client that came last.
SelectLast(q) == Len(q)

\* The position in the queue of the client to serve next: the first one
\* (FIFO), the last one (LIFO), or the first one of those with the highest
\* priority.
SelectNext(q) ==
    CASE cfg.discipline = "FIFO" -> 1
      [] cfg.discipline = "LIFO" -> Len(q)
      [] cfg.discipline = "PRIO" ->
             CHOOSE i \in 1..Len(q) :
                 /\ \A j \in 1..Len(q) : Priority(q[j]) <= Priority(q[i])
                 /\ \A j \in 1..(i - 1) : Priority(q[j]) < Priority(q[i])

\* Variant of StartClient that does not charge the waiting time.
StartClientNoCharge(w, i) ==
    LET cl == w.clientQueue[i]
        e == w.impatience_events[cl]
        w1 == IF e # None THEN RemoveEventOf(w, e) ELSE w
    IN  [w1 EXCEPT !.impatience_events[cl] = None,
                   !.clientQueue = RemoveAt(@, i),
                   !.in_service = @ \cup {cl},
                   !.startLog = Append(@, w.clients[cl].enqNr)]

\* Dispatch loop, for one selected client: its patience event is cancelled,
\* it moves from the queue to in_service, its waiting time is charged.
StartClient(w, i) ==
    LET cl == w.clientQueue[i]
        e == w.impatience_events[cl]
        w1 == IF e # None THEN RemoveEventOf(w, e) ELSE w
        waited == w.now - w.clients[cl].enq
    IN  [w1 EXCEPT !.impatience_events[cl] = None,
                   !.clientQueue = RemoveAt(@, i),
                   !.in_service = @ \cup {cl},
                   !.clients[cl].waiting = @ + waited,
                   !.startLog = Append(@, w.clients[cl].enqNr)]

\* Dispatch loop: the next n clients are selected and started; the batch.
RECURSIVE StartBatch(_, _, _)
StartBatch(w, n, batch) ==
    IF n = 0 THEN [w |-> w, batch |-> batch]
    ELSE LET i == SelectNext(w.clientQueue)
         IN  StartBatch(StartClient(w, i), n - 1,
                        Append(batch, w.clientQueue[i]))

\* Dispatch loop: while a server is free and the queue holds b clients, a
\* batch starts service, with one service-completion event, and occupies
\* one server slot.
RECURSIVE Dispatch(_, _)
Dispatch(w, d) ==
    IF w.servers_busy < cfg.c /\ Len(w.clientQueue) >= cfg.b
    THEN LET st == StartBatch(w, cfg.b, <<>>)
             w1 == Schedule(st.w, "ServiceEnd", w.now + d.s, st.batch, d.s)
         IN  Dispatch([w1 EXCEPT !.servers_busy = @ + 1], d)
    ELSE w

\* Variant of Entry without the capacity check.
EntryUnchecked(w, cl, d) ==
    LET w1 == [w EXCEPT !.clientQueue = Append(@, cl),
                        !.clients[cl].enq = w.now,
                        !.clients[cl].enqNr = Len(w.enqLog) + 1,
                        !.enqLog = Append(@, cl)]
        w2 == IF cfg.WT
              THEN [Schedule(w1, "Patience", w.now + d.wt, <<cl>>, d.wt)
                       EXCEPT !.impatience_events[cl] = Len(w1.evs) + 1]
              ELSE w1
    IN  Dispatch(w2, d)

\* Process station, a client enters: it is blocked when the station is
\* full, else enqueued, with a patience event when there is a patience
\* generator, and dispatch is attempted.
Entry(w, cl, d) ==
    IF cfg.K >= 0 /\ Len(w.clientQueue) + w.servers_busy >= cfg.K
    THEN CancelExit([w EXCEPT !.count.blocked = @ + 1], cl, d, "lostBlocked")
    ELSE LET w1 == [w EXCEPT !.clientQueue = Append(@, cl),
                             !.clients[cl].enq = w.now,
                             !.clients[cl].enqNr = Len(w.enqLog) + 1,
                             !.enqLog = Append(@, cl)]
             w2 == IF cfg.WT
                   THEN [Schedule(w1, "Patience", w.now + d.wt, <<cl>>, d.wt)
                            EXCEPT !.impatience_events[cl] = Len(w1.evs) + 1]
                   ELSE w1
         IN  Dispatch(w2, d)

\* The forward exit of the Process station: the forwarding Decide sends the
\* client to the Dispose or, at most MaxLoops times, back to the Process
\* station.
Forward(w, cl, d) ==
    IF d.fwd /\ w.clients[cl].loops < MaxLoops
    THEN Entry([w EXCEPT !.clients[cl].loops = @ + 1], cl, d)
    ELSE DisposeClient(w, cl)

\* The clients of a batch are handed to the forward successor, from
\* position j on.
RECURSIVE ForwardBatch(_, _, _, _)
ForwardBatch(w, batch, j, d) ==
    IF j > Len(batch) THEN w
    ELSE ForwardBatch(Forward(w, batch[j], d), batch, j + 1, d)

\* The service time is added to the accumulators of the clients of a batch.
AddService(w, batch, delta) ==
    [w EXCEPT !.clients = [cl \in DOMAIN @ |->
                              IF cl \in Range(batch)
                              THEN [@[cl] EXCEPT !.service = @ + delta]
                              ELSE @[cl]]]

\* Source, an arrival fires: a client is created and handed to the Process
\* station, the counter is incremented, and the next arrival is scheduled
\* while fewer than MaxClients clients were emitted.
ArrivalFire(w, ev, d) ==
    LET cl == Len(w.clients) + 1
        w1 == [w EXCEPT !.clients = Append(@, [arrival |-> w.now, waiting |-> 0,
                                              service |-> 0, extra |-> 0,
                                              enq |-> 0, enqNr |-> 0,
                                              loops |-> 0])]
        w2 == Entry(w1, cl, d)
        w3 == [w2 EXCEPT !.count.emitted = @ + 1]
    IN  IF w3.count.emitted < MaxClients
        THEN Schedule(w3, "Arrival", w.now + d.i, <<>>, d.i)
        ELSE w3

\* Process station, a service completion fires: the service time is
\* recorded; with a post-processing generator the batch enters
\* post-processing and keeps the server slot, else its clients are handed
\* forward and the slot is released; dispatch is attempted.
ServiceEndFire(w, ev, d) ==
    LET w1 == AddService(w, ev.clients, ev.delta)
        w2 == [w1 EXCEPT !.in_service = @ \ Range(ev.clients)]
    IN  IF cfg.S2
        THEN LET w3 == [w2 EXCEPT !.post_processing = @ \cup Range(ev.clients),
                                  !.clients = [cl \in DOMAIN @ |->
                                      IF cl \in Range(ev.clients)
                                      THEN [@[cl] EXCEPT !.extra = @ + d.s2]
                                      ELSE @[cl]]]
             IN  Dispatch(Schedule(w3, "PostEnd", w.now + d.s2, ev.clients,
                                   d.s2), d)
        ELSE LET w3 == ForwardBatch(w2, ev.clients, 1, d)
             IN  Dispatch([w3 EXCEPT !.servers_busy = @ - 1], d)

\* Variant of PostEndFire that does not attempt dispatch.
PostEndFireNoDispatch(w, ev, d) ==
    LET w1 == [w EXCEPT !.post_processing = @ \ Range(ev.clients)]
        w2 == ForwardBatch(w1, ev.clients, 1, d)
    IN  [w2 EXCEPT !.servers_busy = @ - 1]

\* Process station, a post-processing completion fires: the clients are
\* handed forward, the slot is released, dispatch is attempted.
PostEndFire(w, ev, d) ==
    LET w1 == [w EXCEPT !.post_processing = @ \ Range(ev.clients)]
        w2 == ForwardBatch(w1, ev.clients, 1, d)
    IN  Dispatch([w2 EXCEPT !.servers_busy = @ - 1], d)

\* Variant of PatienceFire that does not look whether the client is still
\* in the queue.
PatienceFireUnchecked(w, ev, d) ==
    LET cl == ev.clients[1]
        w1 == [w EXCEPT
                 !.clientQueue = SelectSeq(@, LAMBDA x : x # cl),
                 !.impatience_events[cl] = None,
                 !.clients[cl].waiting = @ + (w.now - w.clients[cl].enq),
                 !.count.cancelled = @ + 1]
    IN  Dispatch(CancelExit(w1, cl, d, "lostPatience"), d)

\* Process station, a patience event fires: a client that is still in the
\* queue leaves it, its waiting time is charged, and it takes the cancel
\* exit; dispatch is attempted.  For a client that is not in the queue the
\* expiry has no effect (and is noted).
PatienceFire(w, ev, d) ==
    LET cl == ev.clients[1]
    IN  IF cl \in Range(w.clientQueue)
        THEN LET w1 == [w EXCEPT
                          !.clientQueue = SelectSeq(@, LAMBDA x : x # cl),
                          !.impatience_events[cl] = None,
                          !.clients[cl].waiting = @ + (w.now - w.clients[cl].enq),
                          !.count.cancelled = @ + 1]
             IN  Dispatch(CancelExit(w1, cl, d, "lostPatience"), d)
        ELSE [w EXCEPT !.stray = @ \cup {cl}]

\* Delay, the forward event fires: the client leaves the Delay and enters
\* the Process station.
DelayEndFire(w, ev, d) ==
    Entry([w EXCEPT !.in_delay = @ \ {ev.clients[1]}], ev.clients[1], d)

\* Event.run() of event ev.
FireEvent(w, ev, d) ==
    CASE ev.kind = "Arrival" -> ArrivalFire(w, ev, d)
      [] ev.kind = "ServiceEnd" -> ServiceEndFire(w, ev, d)
      [] ev.kind = "PostEnd" -> PostEndFire(w, ev, d)
      [] ev.kind = "Patience" -> PatienceFire(w, ev, d)
      [] ev.kind = "DelayEnd" -> DelayEndFire(w, ev, d)

\* The draws an event of the given kind can use; the others are held at
\* their smallest value.
Used(kind, d) ==
    /\ kind # "Arrival" => d.i = 0
    /\ ~(cfg.WT /\ kind # "Patience") => d.wt = 0
    /\ ~(cfg.S2 /\ kind = "ServiceEnd") => d.s2 = 0
    /\ ~cfg.cancel => (d.delay = 0 /\ ~d.retry)
    /\ ~d.retry => d.delay = 0
    /\ ~(kind = "PostEnd" \/ (kind = "ServiceEnd" /\ ~cfg.S2)) => ~d.fwd

\* The variables take the values of the record.
Becomes(w) ==
    /\ now' = w.now
    /\ pendingList' = w.pendingList
    /\ nowSlot' = w.nowSlot
    /\ evs' = w.evs
    /\ clientQueue' = w.clientQueue
    /\ in_service' = w.in_service
    /\ post_processing' = w.post_processing
    /\ in_delay' = w.in_delay
    /\ servers_busy' = w.servers_busy
    /\ impatience_events' = w.impatience_events
    /\ clients' = w.clients
    /\ count' = w.count
    /\ enqLog' = w.enqLog
    /\ startLog' = w.startLog
    /\ disposed' = w.disposed
    /\ stray' = w.stray

StationInit ==
    /\ stpc = "new"
    /\ cfg = PlainConfig
    /\ now = 0
    /\ pendingList = <<>>
    /\ nowSlot = None
    /\ evs = <<>>
    /\ clientQueue = <<>>
    /\ in_service = {}
    /\ post_processing = {}
    /\ in_delay = {}
    /\ servers_busy = 0
    /\ impatience_events = [cl \in 1..MaxClients |-> None]
    /\ clients = <<>>
    /\ count = [emitted |-> 0, consumed |-> 0, blocked |-> 0, cancelled |-> 0,
                lostBlocked |-> 0, lostPatience |-> 0]
    /\ enqLog = <<>>
    /\ startLog = <<>>
    /\ disposed = <<>>
    /\ stray = {}

\* The stations are constructed with parameters drawn from Configs and
\* simulator.run() is called: Source.init() schedules the first arrival.
StationsStart ==
    /\ stpc = "new"
    /\ \E cf \in Configs, i \in Draws :
           /\ cfg' = cf
           /\ Becomes(Schedule(World, "Arrival", i, <<>>, i))
    /\ stpc' = "run"
    /\ UNCHANGED notStationVars

\* One pass of the loop of Simulator.run: __pop_event (the now-slot first,
\* else the head of the list, whose time becomes the clock) and the event's
\* run(), with the generators' values drawn.
StationsFire ==
    /\ stpc = "run"
    /\ nowSlot # None \/ pendingList # <<>>
    /\ LET e == IF nowSlot # None THEN nowSlot ELSE ListPopEvent(pendingList)
           w == IF nowSlot # None
                THEN [World EXCEPT !.nowSlot = None]
                ELSE [World EXCEPT !.pendingList = ListPopRest(@),
                                   !.now = evs[e].t]
       IN  IF nowSlot = None /\ ~(now <= evs[e].t)
           THEN /\ stpc' = "assert"
                /\ Becomes([World EXCEPT !.pendingList = ListPopRest(@)])
           ELSE /\ stpc' = stpc
                /\ \E d \in DrawRecords :
                       /\ Used(evs[e].kind, d)
                       /\ Becomes(FireEvent(w, evs[e], d))
    /\ UNCHANGED cfg
    /\ UNCHANGED notStationVars

\* The loop of Simulator.run ends: no event is left.
StationsDone ==
    /\ stpc = "run"
    /\ nowSlot = None
    /\ pendingList = <<>>
    /\ stpc' = "done"
    /\ UNCHANGED <<cfg, now, pendingList, nowSlot, evs, clientQueue,
                   in_service, post_processing, in_delay, servers_busy,
                   impatience_events, clients, count, enqLog, startLog,
                   disposed, stray>>
    /\ UNCHANGED notStationVars

(***************************************************************************)
(* The three event lists of src/queuesim/descore.py side by side: the same *)
(* add, pop and remove calls are made on a _ListEventList, a               *)
(* _DequeEventList and a _HeapqEventList.                                  *)
(***************************************************************************)

\* _DequeEventList.add: appendleft, append or bisect.insort on the deque.
DequeAdd(l, e, tm) ==
    IF Len(l) = 0 THEN Append(l, e)
    ELSE IF tm[e] < tm[l[1]] THEN <<e>> \o l
    ELSE IF tm[e] > tm[l[Len(l)]] THEN Append(l, e)
    ELSE Insort(l, e, tm)

\* _DequeEventList.pop: popleft, the event returned and the deque left.
DequePopEvent(l) == IF Len(l) = 0 THEN None ELSE Head(l)
DequePopRest(l) == IF Len(l) = 0 THEN l ELSE Tail(l)

\* _DequeEventList.remove: `event in deque` and deque.remove(event) compare
\* with Event.__eq__, as the list does.
DequeRemove(l, e, tm) ==
    IF ListIndex(l, e, tm) = 0 THEN l ELSE RemoveAt(l, ListIndex(l, e, tm))

\* heapq._siftdown(heap, startpos, pos) with the item `newitem` in hand
\* (positions 0-based as in Python).
RECURSIVE SiftDown(_, _, _, _, _)
SiftDown(h, startpos, pos, newitem, tm) ==
    IF pos > startpos
    THEN LET parentpos == (pos - 1) \div 2
             parent == h[parentpos + 1]
         IN  IF EventLt(newitem, parent, tm)
             THEN SiftDown([h EXCEPT ![pos + 1] = parent], startpos,
                           parentpos, newitem, tm)
             ELSE [h EXCEPT ![pos + 1] = newitem]
    ELSE [h EXCEPT ![pos + 1] = newitem]

\* heapq._siftup(heap, pos): the loop that moves the smaller child up, from
\* position pos on, with the item `newitem` in hand; then _siftdown.
RECURSIVE SiftUp(_, _, _, _, _)
SiftUp(h, startpos, pos, newitem, tm) ==
    LET endpos == Len(h)
        childpos == 2 * pos + 1
        rightpos == childpos + 1
        child == IF rightpos < endpos
                    /\ ~EventLt(h[childpos + 1], h[rightpos + 1], tm)
                 THEN rightpos ELSE childpos
    IN  IF childpos < endpos
        THEN SiftUp([h EXCEPT ![pos + 1] = h[child + 1]], startpos, child,
                    newitem, tm)
        ELSE SiftDown(h, startpos, pos, newitem, tm)

\* _HeapqEventList.add: heapq.heappush.
HeapAdd(h, e, tm) == SiftDown(Append(h, e), 0, Len(h), e, tm)

\* _HeapqEventList.pop: heapq.heappop, the event returned.
HeapPopEvent(h) == IF Len(h) = 0 THEN None ELSE h[1]

\* _HeapqEventList.pop: heapq.heappop, the heap left.
HeapPopRest(h, tm) ==
    IF Len(h) <= 1 THEN <<>>
    ELSE LET lastelt == h[Len(h)]
             rest == SubSeq(h, 1, Len(h) - 1)
         IN  SiftUp(rest, 0, 0, lastelt, tm)

\* _HeapqEventList.remove: if `event in heap` (Event.__eq__), the event is
\* marked as removed and stays in the heap: is it marked?
HeapRemoveMarks(h, e, tm) == ListIndex(h, e, tm) # 0

ListsInit ==
    /\ lTime = <<>>
    /\ lstL = <<>>
    /\ lstD = <<>>
    /\ heap = <<>>
    /\ hMarked = {}
    /\ dispL = <<>>
    /\ dispD = <<>>
    /\ dispH = <<>>
    /\ nops = 0

\* A new event with time t is constructed and add(event) is called.
ListsAdd(t) ==
    /\ nops < MaxListOps
    /\ LET e == Len(lTime) + 1
           tm == Append(lTime, t)
       IN  /\ lTime' = tm
           /\ lstL' = ListAdd(lstL, e, tm)
           /\ lstD' = DequeAdd(lstD, e, tm)
           /\ heap' = HeapAdd(heap, e, tm)
    /\ nops' = nops + 1
    /\ UNCHANGED <<hMarked, dispL, dispD, dispH>>
    /\ UNCHANGED notListVars

\* What the loop of Simulator.run does with the event pop returned: None
\* and events marked as removed are not run.
Dispatched(log, e, marked) ==
    IF e = None \/ e \in marked THEN log ELSE Append(log, e)

\* pop() is called.
ListsPop ==
    /\ nops < MaxListOps
    /\ dispL' = Dispatched(dispL, ListPopEvent(lstL), {})
    /\ lstL' = ListPopRest(lstL)
    /\ dispD' = Dispatched(dispD, DequePopEvent(lstD), {})
    /\ lstD' = DequePopRest(lstD)
    /\ dispH' = Dispatched(dispH, HeapPopEvent(heap), hMarked)
    /\ heap' = HeapPopRest(heap, lTime)
    /\ nops' = nops + 1
    /\ UNCHANGED <<lTime, hMarked>>
    /\ UNCHANGED notListVars

\* remove(e) is called for an event constructed before.
ListsRemove(e) ==
    /\ nops < MaxListOps
    /\ e \in 1..Len(lTime)
    /\ lstL' = ListRemove(lstL, e, lTime)
    /\ lstD' = DequeRemove(lstD, e, lTime)
    /\ hMarked' = IF HeapRemoveMarks(heap, e, lTime)
                  THEN hMarked \cup {e} ELSE hMarked
    /\ nops' = nops + 1
    /\ UNCHANGED <<lTime, heap, dispL, dispD, dispH>>
    /\ UNCHANGED notListVars

(***************************************************************************)
(* Specifications                                                          *)
(***************************************************************************)

Init == KernelInit /\ ParInit /\ BuildInit /\ GraphInit
            /\ DistInit /\ StationInit /\ ListsInit

\* The event kernel: user code schedules and cancels events; no init object
\* is registered.
Next ==
    \/ \E t \in Times : NewEvent(t)
    \/ \E e \in EventIds : RemoveEvent(e)
    \/ \E e \in EventIds : EventRemove(e)
    \/ RunBegin
    \/ InitDone
    \/ LoopRun
    \/ LoopSkip
    \/ HandlerReturn
    \/ HandlerRaise
    \/ LoopExit

Spec == Init /\ [][Next]_vars

\* The steps of run() itself: the interpreter goes on, and a handler that
\* was entered ends (by returning or by raising).
RunStep ==
    \/ InitDone
    \/ LoopRun
    \/ LoopSkip
    \/ HandlerReturn
    \/ HandlerRaise
    \/ LoopExit

\* The event kernel, with run() making progress.
SpecFair == Spec /\ WF_vars(RunStep)

\* The initialisation protocol: user code registers init objects and
\* schedules events; no event is cancelled.
NextInit ==
    \/ \E t \in Times : NewEvent(t)
    \/ RegisterInit
    \/ RunBegin
    \/ InitCall
    \/ InitReturn
    \/ InitDone
    \/ LoopRun
    \/ HandlerReturn
    \/ HandlerRaise
    \/ LoopExit

SpecInit == Init /\ [][NextInit]_vars

\* run_parallel on NumSimProcesses SimProcess objects: the caller and the
\* worker processes, interleaved.
NextPar ==
    \/ ProcessStart
    \/ \E i \in SimProcesses : WorkerPut(i)
    \/ \E i \in SimProcesses : WorkerRaise(i)
    \/ \E i \in SimProcesses : FeederWrite(i)
    \/ \E i \in SimProcesses : WorkerExit(i)
    \/ ProcessJoin
    \/ QueueRead
    \/ QueueGet
    \/ Collect
    \/ \E i \in SimProcesses : JoinAgain(i)

SpecPar == Init /\ [][NextPar]_vars

\* The model builders, each called once with arguments drawn from the
\* bounded sets.
NextModels ==
    \/ BuildNetworkModelCall
    \/ ImpatienceAndRetryModelBuildCall

SpecModels == Init /\ [][NextModels]_vars

\* build_graph, called once on a network drawn from the bounded sets.
NextGraph ==
    \/ BuildGraphCall
    \/ BuildGraphStep
    \/ BuildGraphReturn

SpecGraph == Init /\ [][NextGraph]_vars

\* The distribution builders: one call with arguments drawn from the
\* bounded sets.
NextDist == BuilderCall

SpecDist == Init /\ [][NextDist]_vars

\* The station network: constructed, then run by the event kernel.
NextEventLists ==
    \/ \E t \in Times : ListsAdd(t)
    \/ ListsPop
    \/ \E e \in 1..MaxListOps : ListsRemove(e)

SpecLists == Init /\ [][NextEventLists]_vars

NextStations ==
    \/ StationsStart
    \/ StationsFire
    \/ StationsDone

SpecStations == Init /\ [][NextStations]_vars

(***************************************************************************)
(* Properties of the event kernel                                          *)
(***************************************************************************)

\* C1: of two dispatched events with equal times, the one constructed first
\* (the smaller id) is run first.
C1_TieFIFO ==
    \A i, j \in 1..Len(runLog) :
        (i < j /\ evTime[runLog[i]] = evTime[runLog[j]])
            => runLog[i] < runLog[j]

\* C2: remove_event(e) affects only e: an event that was constructed is
\* still pending, or was dispatched (run, skipped as removed, or stopped by
\* the assertion), or was itself passed to remove_event; no event leaves the
\* pending set because another event was removed.
C2_OnlyArgumentAffected ==
    \A e \in Created :
        \/ e \in Pending
        \/ e = event
        \/ e \in Range(runLog)
        \/ e \in skipped
        \/ e \in dropped
        \/ e \in cancelled

\* C3: an event passed to remove_event while it was pending is never run,
\* and no event is run twice.
C3_CancelledNeverRun ==
    /\ \A e \in cancelled : e \notin Range(runLog)
    /\ \A i, j \in 1..Len(runLog) : runLog[i] = runLog[j] => i = j

\* C4: remove_event(e) for an event that has already been run, or has
\* already been cancelled, leaves the pending set unchanged.
C4_CancelIdempotent ==
    [][\A e \in EventIds :
          (RemoveEvent(e) /\ (e \in Range(runLog) \/ e \in cancelled))
              => LivePending' = LivePending]_vars

\* C5: the clock never decreases, and of two events dispatched one after the
\* other the first has a time less than or equal to that of the second.
C5_TimeMonotone ==
    [][/\ time' >= time
       /\ (Len(runLog') > Len(runLog) /\ Len(runLog) > 0)
              => evTime[runLog[Len(runLog)]] <= evTime'[runLog'[Len(runLog')]]
      ]_vars

\* C5 witness: two events with different times were dispatched in a run in
\* which a handler scheduled an event and an event was cancelled.
C5_Witness ==
    /\ Len(runLog) >= 2
    /\ evTime[runLog[1]] < evTime[runLog[Len(runLog)]]
    /\ cancelled # {}
    /\ nowSched # {}

\* C6: of two dispatched events with different times, the one with the
\* smaller time is run first.
C6_TimeOrder ==
    \A i, j \in 1..Len(runLog) :
        evTime[runLog[i]] < evTime[runLog[j]] => i < j

\* C6 witness: the earlier event was constructed after the later one, and an
\* event that went through the now-slot was dispatched as well.
C6_Witness ==
    /\ \E i, j \in 1..Len(runLog) :
           /\ evTime[runLog[i]] < evTime[runLog[j]]
           /\ runLog[i] > runLog[j]
    /\ \E e \in nowSched : e \in Range(runLog)

\* C7: constructing an event with a time smaller than the clock fails: the
\* event does not enter the pending set.
C7_PastSchedulingFails ==
    [][\A t \in Times :
          (t < time /\ NewEvent(t))
              => (events' = events /\ nowEvent' = nowEvent)]_vars

\* C8: every event a handler schedules for the current time and that is not
\* cancelled is run before any event with a strictly greater time, and has
\* been run when run() returns.
C8_NowScheduledRunFirst ==
    \A e \in nowSched :
        (e \notin cancelled /\ ~removed[e]) =>
            /\ \A i \in 1..Len(runLog) :
                   evTime[runLog[i]] > evTime[e]
                       => \E j \in 1..(i - 1) : runLog[j] = e
            /\ (pc = "idle" /\ outcome = "returned") => e \in Range(runLog)

\* C9: while an event's run() is executing, the clock equals the event's time.
C9_TimeIsEventTime ==
    pc = "handler" => (event # None /\ time = evTime[event])

\* C9 witness: a handler runs at a positive time for an event that a handler
\* scheduled for the current time, after a removed event was skipped.
C9_Witness ==
    /\ pc = "handler"
    /\ event \in nowSched
    /\ time > 0
    /\ skipped # {}

PendingCount == Len(events) + (IF nowEvent = None THEN 0 ELSE 1)

\* A variant of run(): the events that can still be dispatched (those
\* pending and those the handlers can still construct, at most MaxEvents in
\* total), weighted over the position in the loop.
RunRank ==
    3 * ((MaxEvents - Len(evTime)) + PendingCount)
        + (CASE pc = "init" -> 4
             [] pc = "loop" /\ event # None -> 3
             [] pc = "handler" -> 2
             [] pc = "loop" /\ event = None -> 1
             [] OTHER -> 0)

\* C11: run() returns only when no event is pending (the now-slot and the
\* event list are empty), and it terminates when the handlers construct
\* finitely many events (at most MaxEvents): every step of run() decreases
\* the variant RunRank, which is never negative and which no step of a
\* handler increases, so a run() call takes at most RunRank steps.
C11_RunDrains ==
    /\ [](RunRank >= 0)
    /\ [][/\ (pc # "idle" /\ pc' = "idle" /\ outcome' = "returned")
              => (nowEvent' = None /\ events' = <<>>)
          /\ RunStep => RunRank' < RunRank
          /\ (pc # "idle" /\ ~RunStep) => RunRank' <= RunRank
         ]_vars

\* C11, as a liveness property of the kernel in which run() makes progress:
\* a run() call that was entered ends.
C11_Terminates == (pc # "idle") ~> (pc = "idle")

\* C11 witness: a run() call returned after it ran two events or more, one
\* of them scheduled by a handler, and skipped a removed event.
C11_Witness ==
    /\ pc = "idle"
    /\ outcome = "returned"
    /\ Len(runLog) >= 2
    /\ nowSched # {}
    /\ skipped # {}
    /\ Pending = {}

\* C12: event_count grows by one exactly when an invocation of an event's
\* run() has returned, so that it equals the number of invocations
\* performed; and an event that was cancelled before its dispatch (passed to
\* remove_event while pending, or found marked as removed when popped) is
\* never run.
C12_CountIsRuns ==
    [][/\ eventCount' = IF pc = "handler" /\ pc' # "handler"
                           /\ outcome' # "raised"
                        THEN eventCount + 1
                        ELSE eventCount
       /\ \A e \in cancelled' \cup skipped' : e \notin Range(runLog')
      ]_vars

\* C13: when an event's run() has raised, run() is left (no event is
\* dispatched until run() is called again) and the raising event, the last
\* one whose run() was invoked, is not counted.
C13_RaiseEndsRun ==
    outcome = "raised" =>
        /\ pc = "idle"
        /\ event = None
        /\ eventCount < Len(runLog)

\* C13 witness: the handler of the second event dispatched raised while an
\* event was still pending.
C13_Witness ==
    /\ outcome = "raised"
    /\ eventCount = 1
    /\ Len(runLog) = 2
    /\ Pending # {}

\* C14: run() called with no pending event and no init object registered
\* goes from the first __pop_event() to the end of the loop and returns; no
\* handler and no init() is invoked, nothing is raised, and the clock and
\* event_count keep their values.
C14_EmptyRunNoOp ==
    [][/\ (pc = "init" /\ initIdx = 1 /\ initObjects = <<>> /\ Pending = {})
              => /\ pc' = "loop"
                 /\ event' = None
                 /\ UNCHANGED <<time, eventCount, runLog, initLog, outcome>>
       /\ (pc = "loop" /\ event = None)
              => /\ pc' = "idle"
                 /\ outcome' = "returned"
                 /\ UNCHANGED <<time, eventCount, runLog, initLog>>
      ]_vars

\* C14 witness: run() was called again on a simulator whose earlier run has
\* run its init objects and drained all its events.
C14_Witness ==
    /\ pc = "init"
    /\ outcome = "rerunning"
    /\ initIdx = 1
    /\ initObjects = <<>>
    /\ Pending = {}
    /\ eventCount > 0
    /\ initLog # <<>>

\* The step pops event e: e leaves the pending set as the event returned by
\* __pop_event, or as the event its assertion failed on.
Popped(e) ==
    /\ e \in Pending
    /\ e \notin Pending'
    /\ event' = e \/ (e \in dropped' /\ e \notin dropped)

\* C30: an event that was scheduled with a time smaller than the clock is
\* never executed, the run aborts with an error no later than the moment
\* the event is popped, and the clock is never set to the earlier time.
C30_PastEventAborts ==
    /\ [](\A e \in past : e \notin Range(runLog) /\ evTime[e] < time)
    /\ [][\A e \in past :
             Popped(e) => (pc' = "idle" /\ outcome' = "assert")]_vars

TakenOut(e) ==
    IF e = nowEvent THEN e ELSE events[ListIndex(events, e, evTime)]

LastRunTime == IF runLog = <<>> THEN 0 ELSE evTime[runLog[Len(runLog)]]

\* C32: an event marked as removed does not advance the clock when it is
\* popped: the clock is the time of the event run last (0 when none was
\* run), or, right after the pop, the time of the unmarked event that is
\* about to be run; so it is the time of the event run last when run() has
\* ended.
C32_ClockIsLastRun ==
    \/ time = LastRunTime
    \/ /\ pc = "loop"
       /\ event # None
       /\ ~removed[event]
       /\ time = evTime[event]

\* run() has returned after it skipped a marked event with a time greater
\* than that of the event run last.
C32_Witness ==
    /\ pc = "idle"
    /\ outcome = "returned"
    /\ runLog # <<>>
    /\ \E e \in skipped : evTime[e] > time

(***************************************************************************)
(* Properties of run_parallel                                              *)
(***************************************************************************)

\* C16: a worker whose simulation raised does not leave run_parallel
\* blocked: the caller is never inside queue.get() for a worker that has
\* ended without queuing a result.
C16_FailureReported ==
    \A i \in SimProcesses :
        procState[i] = "failed"
            => ~(ppc = "get" /\ pidx = i /\ queue[QueueOf(i)] = <<>>)

\* C17: run_parallel returns two lists as long as its argument; models[i] is
\* the model the worker of process i computed and simulators[i] the
\* simulator of models[i], whatever the order in which the workers finished.
C17_ResultsInInputOrder ==
    ppc = "returned" =>
        /\ DOMAIN returned.models = SimProcesses
        /\ DOMAIN returned.simulators = SimProcesses
        /\ \A i \in SimProcesses :
               /\ returned.models[i] = ModelOf(i)
               /\ returned.simulators[i]
                      = GetSimulatorFromModel(returned.models[i])

\* C17 witness: run_parallel returned after the last worker finished first
\* and the first worker finished last.
C17_Witness ==
    /\ ppc = "returned"
    /\ finishLog[1] = NumSimProcesses
    /\ finishLog[NumSimProcesses] = 1

\* C34: SimProcess.join() returns for every size of the result: the parent
\* is never inside process.join() for a worker that cannot exit, its feeder
\* thread still holding a part of the result that the full pipe of the
\* queue does not take, while nothing reads the pipe.
C34_JoinReturns ==
    \A i \in SimProcesses :
        ~(/\ ppc = "join"
          /\ pidx = i
          /\ procState[i] = "put"
          /\ unsent[i] > 0
          /\ inPipe[QueueOf(i)] = PipeCapacity)

\* C35: a join() called again after it has returned returns without
\* blocking: the caller is never inside queue.get() of a SimProcess whose
\* worker has exited and whose queue is empty.
C35_RejoinReturns ==
    ~(/\ ppc = "getagain"
      /\ procState[pidx] = "exited"
      /\ queue[QueueOf(pidx)] = <<>>)

(***************************************************************************)
(* Properties of the model builders                                        *)
(***************************************************************************)

\* The matrices have the documented dimensions.
DimensionsMatch(connections1, connections2) ==
    /\ Len(connections1) = NumSources
    /\ \A s \in 1..Len(connections1) :
           Len(connections1[s]) = NumProcessStations
    /\ Len(connections2) = NumProcessStations
    /\ \A p \in 1..Len(connections2) :
           Len(connections2[p]) = NumProcessStations + NumDisposes

\* Target j of the claim: a process for the first columns, then a dispose.
TargetAt(j) ==
    IF j <= NumProcessStations THEN ProcessAt(j)
    ELSE DisposeAt(j - NumProcessStations)

\* The wiring w routes process p as row says: directly to the target of the
\* one positive entry, or through a Decide station that has exactly the
\* positive entries as successors, each with its rate.
RoutedAsRow(w, p, row) ==
    LET positive == {j \in 1..Len(row) : row[j] > 0}
    IN  IF Cardinality(positive) = 1
        THEN \A j \in positive : w.next[ProcessAt(p)] = TargetAt(j)
        ELSE \E d \in 1..Len(w.decides) :
                 /\ w.next[ProcessAt(p)] = DecideAt(d)
                 /\ Len(w.decides[d]) = Cardinality(positive)
                 /\ \A j \in positive :
                        \E k \in 1..Len(w.decides[d]) :
                            w.decides[d][k] = <<TargetAt(j), row[j]>>

\* C18: build_network_model called with matrices of the documented
\* dimensions returns, and when it has returned every process is routed as
\* its row of connections2 says.
C18_RoutingAsMatrix ==
    netArgs # <<>> =>
        /\ DimensionsMatch(netArgs[1], netArgs[2]) => wiring.error = "none"
        /\ wiring.error = "none"
               => \A p \in 1..NumProcessStations :
                      RoutedAsRow(wiring, p, netArgs[2][p])

\* C19: build_network_model raises an error whenever a row count or a row
\* length differs from the documented dimensions.
C19_MismatchRejected ==
    netArgs # <<>> =>
        (~DimensionsMatch(netArgs[1], netArgs[2]) => wiring.error # "none")

\* C20: the Process station is created with the caller's c operators and
\* the 'c' entry of the returned model is the caller's c.
C20_HonoursC ==
    irArgs # <<>> =>
        /\ irModel.processC = irArgs[2]
        /\ irModel.c = irArgs[2]

\* The wiring w is that of the stations before the call: no set_next or
\* add_next call was made and no Decide station was created.
Unwired(w) ==
    /\ w.next = NoWiring.next
    /\ w.decides = <<>>

\* C36: if build_network_model raises an error, it has not changed the
\* wiring of any station.
C36_ErrorLeavesWiring ==
    wiring.error # "none" => Unwired(wiring)

\* A matrix of the call has the wrong number of rows.
RowCountMismatch ==
    \/ Len(netArgs[1]) # NumSources
    \/ Len(netArgs[2]) # NumProcessStations

\* C36, amended: if build_network_model is called with a matrix that has
\* the wrong number of rows, it raises RuntimeError and has not changed the
\* wiring of any station.
C36_RowCountErrorLeavesWiring ==
    (netArgs # <<>> /\ RowCountMismatch)
        => (wiring.error = "RuntimeError" /\ Unwired(wiring))

\* C36 witness: build_network_model was called with connections1 of the
\* right number of rows and connections2 of a wrong one, and has raised.
C36_Witness ==
    /\ netArgs # <<>>
    /\ Len(netArgs[1]) = NumSources
    /\ Len(netArgs[2]) # NumProcessStations
    /\ wiring.error = "RuntimeError"

(***************************************************************************)
(* Properties of build_graph                                               *)
(***************************************************************************)

\* The first position of initial_nodes a station occurs at.
FirstOccurrence(i) == \A k \in 1..(i - 1) : initial_nodes[k] # initial_nodes[i]

\* C21: build_graph numbers the stations of each kind in the order of their
\* discovery, the initial nodes being discovered in the order given: of two
\* different stations of one kind in initial_nodes, the one that comes first
\* in the list has the smaller number (with initial_nodes = [s1, s2] of the
\* same kind, s1 gets number 1 and s2 number 2).
C21_NumberedInGivenOrder ==
    gpc = "returned" =>
        \A i, j \in 1..Len(initial_nodes) :
            (/\ i < j
             /\ FirstOccurrence(i)
             /\ FirstOccurrence(j)
             /\ KindOf(initial_nodes[i]) = KindOf(initial_nodes[j]))
                => station_names[initial_nodes[i]][2]
                       < station_names[initial_nodes[j]][2]

\* The stations reachable from the stations in S along next_stations.
RECURSIVE ReachFrom(_)
ReachFrom(S) ==
    LET T == S \cup {b \in GraphStations :
                        \E a \in S : b \in Range(next_stations[a])}
    IN  IF T = S THEN S ELSE ReachFrom(T)

Reachable == ReachFrom(Range(initial_nodes))

\* C22: the graph build_graph returns has an edge from the node of station
\* a to the node of station b exactly when a is reachable from the initial
\* nodes and b is in a.next_stations: the reachable stations, and only
\* they, have a name, different stations have different names, the nodes
\* are the named stations, and the edges are the declared successor pairs
\* of the reachable stations, so every end point of an edge is a node.
C22_EdgesAsDeclared ==
    gpc = "returned" =>
        /\ \A a \in GraphStations : station_names[a] # NoName <=> a \in Reachable
        /\ \A a, b \in Reachable : a # b => station_names[a] # station_names[b]
        /\ dg.nodes = {station_names[a] : a \in Reachable}
        /\ dg.edges = UNION {{<<station_names[a], station_names[b]>> :
                                 b \in Range(next_stations[a])} : a \in Reachable}
        /\ \A e \in dg.edges : e[1] \in dg.nodes /\ e[2] \in dg.nodes

\* A graph was returned for a network with a cycle, an edge back to a
\* station named earlier, and a station out of reach that has a successor.
C22_Witness ==
    /\ gpc = "returned"
    /\ Cardinality(dg.edges) >= 3
    /\ \E a \in Reachable : a \in Range(next_stations[a])
    /\ \E a \in GraphStations \ Reachable : next_stations[a] # <<>>

\* The work build_graph has left: the entries of todo and the stations
\* that have no name and are not in todo.
GraphRank ==
    Len(todo)
        + Cardinality({a \in GraphStations :
                          station_names[a] = NoName /\ a \notin Range(todo)})

\* C37: build_graph terminates on every finite station network: every
\* iteration of `while todo:` makes GraphRank, a natural number, smaller,
\* so the loop has at most as many iterations as there are entries of
\* initial_nodes and stations.
C37_LoopRankDecreases ==
    [][BuildGraphStep => GraphRank' < GraphRank]_vars

\* C37 witness: build_graph has returned for initial_nodes that hold a
\* station twice, on a network with a station that is its own successor and
\* a loop over two stations.
C37_Witness ==
    /\ gpc = "returned"
    /\ \E i, j \in 1..Len(initial_nodes) :
           i # j /\ initial_nodes[i] = initial_nodes[j]
    /\ \E a \in Reachable : a \in Range(next_stations[a])
    /\ \E a, b \in Reachable :
           /\ a # b
           /\ b \in Range(next_stations[a])
           /\ a \in Range(next_stations[b])

\* The stations of kind cls that have a name.
NamedOf(cls) ==
    {a \in GraphStations : station_names[a] # NoName /\ KindOf(a) = cls}

\* C38: build_graph gives different stations different names, the numbers
\* used for the stations of a kind are 1..k without gaps or repeats, and
\* when it returns every station reachable from the initial nodes has a
\* name of its kind.
C38_NamesNumbered ==
    /\ \A a, b \in GraphStations :
           (a # b /\ station_names[a] # NoName) =>
               station_names[a] # station_names[b]
    /\ \A cls \in Kinds :
           {station_names[a][2] : a \in NamedOf(cls)}
               = 1..Cardinality(NamedOf(cls))
    /\ gpc = "returned" =>
           \A a \in Reachable :
               /\ station_names[a] # NoName
               /\ station_names[a][1] = KindOf(a)

\* C38 witness: build_graph has returned names for two stations of one
\* kind, for initial_nodes that hold a station twice, on a network where a
\* station is the successor of two others and lies on a cycle.
C38_Witness ==
    /\ gpc = "returned"
    /\ Len(initial_nodes) = 2
    /\ initial_nodes[1] = initial_nodes[2]
    /\ \E a, b \in Reachable : a # b /\ KindOf(a) = KindOf(b)
    /\ \E a, b, c \in Reachable :
           /\ a # b /\ a # c /\ b # c
           /\ c \in Range(next_stations[a])
           /\ c \in Range(next_stations[b])
           /\ a \in Range(next_stations[c])

(***************************************************************************)
(* Properties of the distribution builders                                 *)
(***************************************************************************)

\* C29: a builder of a positive-support distribution (exp, log_normal,
\* gamma, erlang) called with a non-positive mean or with a negative
\* standard deviation fails at the call: it raises an error and returns no
\* generator, neither a callable nor a recipe string.
C29_BadParametersRejected ==
    (distArgs # <<>> /\ (distArgs[2] <= 0 \/ distArgs[3] < 0))
        => (distResult.error # "none" /\ distResult.generator = "none")

(***************************************************************************)
(* Properties of the stations                                              *)
(***************************************************************************)

\* An event boundary: the stations are constructed and no event is running.
AtEventBoundary == stpc \in {"run", "done"}

\* C23: at every event boundary, for a Process station with c operators and
\* finite capacity K >= 0, the number of busy servers is at most c and the
\* number of queued clients is at most K - c.
C23_CapacityBounds ==
    (AtEventBoundary /\ cfg.K >= 0) =>
        /\ servers_busy <= cfg.c
        /\ Len(clientQueue) <= cfg.K - cfg.c

\* C23 as amended: the number of busy servers is at most c, the queued
\* clients and the busy servers together are at most K, and for batch size
\* 1 the number of queued clients is at most K - c.
C23_CapacityBoundsAmended ==
    (AtEventBoundary /\ cfg.K >= 0) =>
        /\ servers_busy <= cfg.c
        /\ Len(clientQueue) + servers_busy <= cfg.K
        /\ cfg.b = 1 => Len(clientQueue) <= cfg.K - cfg.c

\* A station of finite capacity and batch size 1 is full: every server is
\* busy and K - c clients, at least one, wait.
C23_Witness ==
    /\ AtEventBoundary
    /\ cfg.K >= 0
    /\ cfg.b = 1
    /\ servers_busy = cfg.c
    /\ Len(clientQueue) >= 1
    /\ Len(clientQueue) = cfg.K - cfg.c

\* The patience events of client cl that are pending.
PendingPatience(cl) ==
    {e \in Range(pendingList) \cup (IF nowSlot = None THEN {} ELSE {nowSlot}) :
        evs[e].kind = "Patience" /\ evs[e].clients = <<cl>>}

\* C24: at a Process station with a patience generator, every client in
\* the queue has exactly one pending patience event, a client that left the
\* queue (by service start or by patience expiry) has none, and no patience
\* event ever fires for a client that is not in the queue.
C24_OnePatienceEvent ==
    (AtEventBoundary /\ cfg.WT) =>
        /\ \A cl \in Range(clientQueue) : Cardinality(PendingPatience(cl)) = 1
        /\ \A cl \in 1..Len(clients) :
               cl \notin Range(clientQueue) => PendingPatience(cl) = {}
        /\ stray = {}

\* C25: when the run has ended, the clients emitted by the Source are those
\* consumed by the Dispose plus those that left the system at the Process
\* station when they were blocked plus those that left it when their
\* patience expired.
C25_ClientsConserved ==
    stpc = "done" =>
        count.emitted = count.consumed + count.lostBlocked + count.lostPatience

\* The clients a station holds: waiting, in service or in post-processing
\* at the Process station, or in the Delay.
Held == Range(clientQueue) \cup in_service \cup post_processing \cup in_delay

\* C25 as amended: when the run has ended, the clients emitted are those
\* consumed plus those that left the system when blocked or when their
\* patience expired plus those a station still holds; no client is
\* consumed twice, and none is both consumed and held.
C25_ClientsConservedAmended ==
    stpc = "done" =>
        /\ count.emitted = count.consumed + count.lostBlocked
                               + count.lostPatience + Cardinality(Held)
        /\ \A k, l \in 1..Len(disposed) :
               disposed[k].client = disposed[l].client => k = l
        /\ \A k \in 1..Len(disposed) : disposed[k].client \notin Held

\* A run has ended in which a client was blocked, a client went through the
\* retry Delay, and every client was consumed.
C25_Witness ==
    /\ stpc = "done"
    /\ cfg.cancel
    /\ count.blocked > 0
    /\ \E k \in 1..Len(disposed) : disposed[k].extra > 0
    /\ count.consumed = MaxClients

\* C26: service start is eager: the clock does not advance from a state in
\* which a server is free and the queue holds a batch.
C26_EagerServiceStart ==
    [][now' > now =>
          ~(servers_busy < cfg.c /\ Len(clientQueue) >= cfg.b)]_vars

\* A client that had to wait is in service, and another client waits.
C26_Witness ==
    /\ AtEventBoundary
    /\ \E cl \in in_service : clients[cl].waiting > 0
    /\ clientQueue # <<>>

\* Two clients are of one priority class: always without a priority
\* function, else when their priorities are equal.
SameClass(a, b) == cfg.discipline = "FIFO" \/ Priority(a) = Priority(b)

\* C27: with FIFO discipline (also as the tie-break of a priority
\* function), clients of one priority class start service in the order in
\* which they were enqueued.
C27_FifoOrder ==
    cfg.discipline # "LIFO" =>
        \A i, j \in 1..Len(startLog) :
            (i < j /\ SameClass(enqLog[startLog[i]], enqLog[startLog[j]]))
                => startLog[i] < startLog[j]

\* A client that came back to the queue behind a waiting client started
\* service after it.
C27_Witness ==
    /\ cfg.discipline # "LIFO"
    /\ cfg.b = 1
    /\ Len(startLog) >= 3
    /\ \E i \in 1..Len(enqLog) : enqLog[i] = 1 /\ i > 2

\* C28: for every client that reached the Dispose, the accumulated waiting
\* time plus the accumulated service time is the residence time (the time
\* of disposal minus the time of arrival).
C28_WaitingPlusService ==
    \A k \in 1..Len(disposed) :
        disposed[k].waiting + disposed[k].service = disposed[k].residence

\* C28 as amended: waiting time plus service time plus the time spent in
\* post-processing and in the Delay is the residence time.
C28_WaitingPlusServiceAmended ==
    \A k \in 1..Len(disposed) :
        disposed[k].waiting + disposed[k].service + disposed[k].extra
            = disposed[k].residence

\* A client that waited, was served and spent time in post-processing or
\* in the Delay was disposed.
C28_Witness ==
    \E k \in 1..Len(disposed) :
        /\ disposed[k].waiting > 0
        /\ disposed[k].service > 0
        /\ disposed[k].extra > 0

(***************************************************************************)
(* Properties of the event lists                                           *)
(***************************************************************************)

\* C33: the three event lists are interchangeable: after every sequence of
\* add, pop and remove calls the Simulator has been handed the same events
\* to run, in the same order, by each of them.
C33_ListsInterchangeable ==
    /\ dispL = dispD
    /\ dispL = dispH

\* The list l is in non-decreasing order of time.
SortedByTime(l) ==
    \A i, j \in 1..Len(l) : i < j => lTime[l[i]] <= lTime[l[j]]

\* C39: after every sequence of add, pop and remove calls _ListEventList
\* holds its events in non-decreasing order of time, and pop returns None
\* when it holds no event and else an event it holds whose time is minimal.
C39_ListSorted ==
    /\ SortedByTime(lstL)
    /\ lstL = <<>> => ListPopEvent(lstL) = None
    /\ lstL # <<>> =>
           /\ ListPopEvent(lstL) \in Range(lstL)
           /\ \A e \in Range(lstL) : lTime[ListPopEvent(lstL)] <= lTime[e]

\* An event was popped, another was removed, and the list holds events of
\* different times, the earlier one added last.
C39_Witness ==
    /\ dispL # <<>>
    /\ \E e \in 1..Len(lTime) : e \notin Range(lstL) /\ e \notin Range(dispL)
    /\ Len(lstL) >= 2
    /\ lTime[lstL[1]] < lTime[lstL[Len(lstL)]]
    /\ lstL[1] > lstL[Len(lstL)]

====
